---- MODULE Spec2Model ----
(***************************************************************************)
(* MedAlert edge processor: the measurement pipeline of EdgeProcessor      *)
(* (validation, offline cache, sliding windows, anomaly detection,         *)
(* debounce, alert delivery) as a state machine.                           *)
(*                                                                         *)
(* Numbers are JavaScript numbers restricted to the integers the model     *)
(* draws; a quotient (a mean, a slope) is kept exact as a fraction         *)
(* [num, den] with den > 0.  Temperatures and signal qualities are in      *)
(* tenths (39.0 is 390, 0.3 is 3).  A timestamp is the millisecond         *)
(* instant its ISO string denotes; an unparseable string is BadTimestamp.  *)
(* One call of ingestMeasurement reads the wall clock once.                *)
(***************************************************************************)
EXTENDS Integers, Sequences, FiniteSets, TLC

\* ------------------------------------------------------------------------
\* Bounds of the model
\* ------------------------------------------------------------------------
MaxAccepted == 3
MaxClock == 3
\* longest window or array handed to a component directly
MaxWindowLen == 3
\* HTTP requests the front end receives
MaxRequests == 2

\* sizes the configuration fixes (windowSize, debounceMs, trend.minPoints),
\* scaled down to what MaxAccepted calls and MaxClock instants can exercise
windowSize == 2
debounceMs == 2
minPoints == 2

\* ------------------------------------------------------------------------
\* JavaScript values that are not numbers
\* ------------------------------------------------------------------------
Undefined == -1
NaN == -2
BadTimestamp == -3
NotANumber == -4

\* ------------------------------------------------------------------------
\* Configuration (config/thresholds.json, read once by the constructor)
\* ------------------------------------------------------------------------
HeartRateMax == 120
Spo2Min == 90
TemperatureMax == 390
HeartRateSlopeLimit == 2
Spo2SlopeLimit == -1
\* a temperature that does not fall is a trend
TemperatureSlopeLimit == 0

KnownTypes == {"HEART_RATE", "SPO2", "TEMPERATURE"}

plausibleRanges ==
    [t \in KnownTypes |->
        CASE t = "HEART_RATE" -> [min |-> 30, max |-> 220]
          [] t = "SPO2" -> [min |-> 50, max |-> 100]
          [] t = "TEMPERATURE" -> [min |-> 300, max |-> 450]]

thresholds ==
    [t \in KnownTypes |->
        CASE t = "HEART_RATE" -> [min |-> Undefined, max |-> HeartRateMax]
          [] t = "SPO2" -> [min |-> Spo2Min, max |-> Undefined]
          [] t = "TEMPERATURE" -> [min |-> Undefined, max |-> TemperatureMax]]

slopeThresholds ==
    [t \in KnownTypes |->
        CASE t = "HEART_RATE" -> HeartRateSlopeLimit
          [] t = "SPO2" -> Spo2SlopeLimit
          [] t = "TEMPERATURE" -> TemperatureSlopeLimit]

severityPolicy ==
    [t \in {"HEART_RATE", "SPO2"} |->
        IF t = "HEART_RATE" THEN "HIGH" ELSE "LOW"]

\* ------------------------------------------------------------------------
\* Inputs
\* ------------------------------------------------------------------------
Patients == {"P001", "P002"}
Streams == Patients \X KnownTypes
AnomalyTypes == {"THRESHOLD_LOW", "THRESHOLD_HIGH", "TREND"}
DebounceKeys == Patients \X KnownTypes \X AnomalyTypes

Measurement(p, t, v, ts, q) ==
    [patientId |-> p, measurementType |-> t, value |-> v,
     timestamp |-> ts, signalQuality |-> q]

\* null, or an object with no field set
NullMeasurement == Measurement("", "", NotANumber, BadTimestamp, NotANumber)

\* What the callers send.  Inputs: one heart-rate stream below and above its
\* threshold at two instants, a second stream of another patient, and two
\* rejected measurements.
Inputs ==
    { Measurement("P001", "HEART_RATE", 119, 0, 10),
      Measurement("P001", "HEART_RATE", 121, 1, 10),
      Measurement("P002", "SPO2", 95, 0, 10),
      Measurement("P001", "HEART_RATE", 121, 1, 1),
      Measurement("P001", "HEART_RATE", 300, 1, 10) }

\* TypeInputs: each measurement type below, at and beyond its threshold.
TypeInputs ==
    { Measurement("P001", "HEART_RATE", 120, 1, 10),
      Measurement("P001", "HEART_RATE", 121, 1, 10),
      Measurement("P001", "TEMPERATURE", 389, 1, 10),
      Measurement("P001", "TEMPERATURE", 390, 1, 10),
      Measurement("P001", "SPO2", 89, 1, 10),
      Measurement("P001", "SPO2", 90, 1, 10) }

\* ValidationInputs: two accepted measurements (one at the quality floor) and
\* measurements that fail one or several of the validator's checks.
ValidationInputs ==
    { Measurement("P001", "HEART_RATE", 119, 1, 3),
      Measurement("P001", "HEART_RATE", 121, 0, 10),
      NullMeasurement,
      Measurement("", "HEART_RATE", 80, 1, 10),
      Measurement("P001", "", 80, 1, 10),
      Measurement("", "HEART_RATE", 80, 1, 1),
      Measurement("P001", "HEART_RATE", 121, 1, 1),
      Measurement("P001", "HEART_RATE", 121, 1, 2),
      Measurement("P001", "HEART_RATE", 121, 1, NotANumber),
      Measurement("P001", "HEART_RATE", 300, 1, 1),
      Measurement("P001", "BLOOD_PRESSURE", 120, 1, 10),
      Measurement("P001", "HEART_RATE", NotANumber, 1, 10),
      Measurement("P001", "HEART_RATE", 300, 1, 10),
      Measurement("P001", "HEART_RATE", 29, 1, 10),
      Measurement("P001", "HEART_RATE", 121, BadTimestamp, 10) }

\* TrendInputs: a heart rate that rises by the slope limit per sample up to
\* its threshold, and an oxygen saturation that falls by its slope limit.
TrendInputs ==
    { Measurement("P001", "HEART_RATE", 116, 1, 10),
      Measurement("P001", "HEART_RATE", 118, 1, 10),
      Measurement("P001", "HEART_RATE", 120, 1, 10),
      Measurement("P001", "SPO2", 96, 1, 10),
      Measurement("P001", "SPO2", 95, 1, 10) }

\* PatientInputs: the same alert-worthy heart rate of two patients, the
\* second patient's with the earlier timestamp.
PatientInputs ==
    { Measurement("P001", "HEART_RATE", 121, 1, 10),
      Measurement("P002", "HEART_RATE", 121, 0, 10) }

\* PriorityInputs: a temperature below and one above its threshold, whose
\* mean is at the threshold; no temperature falls below the slope limit.
PriorityInputs ==
    { Measurement("P001", "TEMPERATURE", 389, 1, 10),
      Measurement("P001", "TEMPERATURE", 391, 1, 10) }

\* KeyInputs: the temperatures of PriorityInputs, which give anomalies of two
\* types on one stream, and an alert-worthy heart rate of the same patient.
KeyInputs ==
    PriorityInputs \cup { Measurement("P001", "HEART_RATE", 121, 1, 10) }

\* What is handed to a component directly: windows of samples for the
\* detector (around the thresholds of the three types for the threshold rule,
\* one apart for the trend rule), arrays of numbers for utils/stats, and a
\* patient and a type the processor has no window for.
SeqsUpTo(S, n) == UNION {[1..k -> S] : k \in 0..n}

Sample(v) == [value |-> [num |-> v, den |-> 1]]

ThresholdValues == {89, 90, 120, 121, 389, 390}
TrendValues == {95, 96, 97, 98}
ThresholdWindows == SeqsUpTo({Sample(v) : v \in ThresholdValues}, MaxWindowLen)
TrendWindows == SeqsUpTo({Sample(v) : v \in TrendValues}, MaxWindowLen)
DetectorTypes == KnownTypes \cup {"BLOOD_PRESSURE"}
StatArrays == SeqsUpTo({[num |-> v, den |-> 1] : v \in 0..3}, MaxWindowLen)
QueriedPatients == Patients \cup {"P003"}

\* ------------------------------------------------------------------------
\* utils/time.js
\* ------------------------------------------------------------------------
toMs(ts) == IF ts = BadTimestamp THEN NaN ELSE ts

isFinite(x) == x # NaN /\ x # Undefined /\ x # NotANumber

\* ------------------------------------------------------------------------
\* utils/stats.js, on fractions that share one denominator
\* ------------------------------------------------------------------------
Frac(n, d) == [num |-> n, den |-> d]

RECURSIVE SumNum(_)
SumNum(values) ==
    IF values = <<>> THEN 0 ELSE Head(values).num + SumNum(Tail(values))

mean(arr) ==
    IF Len(arr) = 0 THEN Frac(0, 1)
    ELSE Frac(SumNum(arr), Len(arr) * arr[1].den)

RECURSIVE SlopeSums(_, _, _)
\* the loop of slope from index i on, scaled to integers:
\* <<sum of (2 dx) * (yMean.den * dy), sum of (2 dx)^2>>
SlopeSums(values, i, yMean) ==
    LET n == Len(values) IN
    IF i > n THEN <<0, 0>>
    ELSE LET dx2 == 2 * (i - 1) - (n - 1)
             dyn == n * values[i].num - yMean.num
             rest == SlopeSums(values, i + 1, yMean)
         IN <<dx2 * dyn + rest[1], dx2 * dx2 + rest[2]>>

\* mutant: the sum of products is divided by the number of values
slope_DividesByLength(values) ==
    LET n == Len(values) IN
    IF n < 2 THEN Frac(0, 1)
    ELSE LET yMean == mean(values)
             s == SlopeSums(values, 1, yMean)
         IN Frac(s[1], 2 * yMean.den * n)

slope(values) ==
    LET n == Len(values) IN
    IF n < 2 THEN Frac(0, 1)
    ELSE LET yMean == mean(values)
             s == SlopeSums(values, 1, yMean)
         IN IF s[2] = 0 THEN Frac(0, 1)
            ELSE Frac(2 * s[1], yMean.den * s[2])

\* ------------------------------------------------------------------------
\* modules/signalValidator.js
\* ------------------------------------------------------------------------
MIN_SIGNAL_QUALITY == 3

\* mutant: the quality floor is not applied
validateSignalQuality_NoFloor(m) ==
    m.signalQuality # NotANumber

validateSignalQuality(m) ==
    m.signalQuality # NotANumber /\ m.signalQuality >= MIN_SIGNAL_QUALITY

\* mutant: the upper end of the plausible range is not checked
checkValuePlausibility_NoUpper(m) ==
    IF m.measurementType \notin DOMAIN plausibleRanges THEN FALSE
    ELSE LET r == plausibleRanges[m.measurementType] IN
         m.value # NotANumber /\ m.value >= r.min

checkValuePlausibility(m) ==
    IF m.measurementType \notin DOMAIN plausibleRanges THEN FALSE
    ELSE LET r == plausibleRanges[m.measurementType] IN
         m.value # NotANumber /\ m.value >= r.min /\ m.value <= r.max

\* mutant: the stream's last timestamp is recorded for its first measurement only
verifyTimestampConsistency_KeepsFirst(lastTs, m) ==
    LET key == <<m.patientId, m.measurementType>>
        ms == toMs(m.timestamp)
    IN IF ~isFinite(ms)
       THEN [ok |-> FALSE, reason |-> "invalid timestamp", lastTs |-> lastTs]
       ELSE IF lastTs[key] # Undefined /\ ms < lastTs[key]
       THEN [ok |-> FALSE, reason |-> "out-of-order timestamp", lastTs |-> lastTs]
       ELSE [ok |-> TRUE, reason |-> "",
             lastTs |-> IF lastTs[key] = Undefined
                        THEN [lastTs EXCEPT ![key] = ms] ELSE lastTs]

\* mutant: a timestamp that does not parse is not rejected
verifyTimestampConsistency_AcceptsUnparseable(lastTs, m) ==
    LET key == <<m.patientId, m.measurementType>>
        ms == toMs(m.timestamp)
    IN IF lastTs[key] # Undefined /\ ms < lastTs[key]
       THEN [ok |-> FALSE, reason |-> "out-of-order timestamp", lastTs |-> lastTs]
       ELSE [ok |-> TRUE, reason |-> "", lastTs |-> [lastTs EXCEPT ![key] = ms]]

\* mutant: a timestamp equal to the last accepted one is rejected
verifyTimestampConsistency_RejectsEqual(lastTs, m) ==
    LET key == <<m.patientId, m.measurementType>>
        ms == toMs(m.timestamp)
    IN IF ~isFinite(ms)
       THEN [ok |-> FALSE, reason |-> "invalid timestamp", lastTs |-> lastTs]
       ELSE IF lastTs[key] # Undefined /\ ms <= lastTs[key]
       THEN [ok |-> FALSE, reason |-> "out-of-order timestamp", lastTs |-> lastTs]
       ELSE [ok |-> TRUE, reason |-> "", lastTs |-> [lastTs EXCEPT ![key] = ms]]

\* mutant: the stream's last timestamp is recorded before the order check
verifyTimestampConsistency_RecordsFirst(lastTs, m) ==
    LET key == <<m.patientId, m.measurementType>>
        ms == toMs(m.timestamp)
    IN IF ~isFinite(ms)
       THEN [ok |-> FALSE, reason |-> "invalid timestamp", lastTs |-> lastTs]
       ELSE IF lastTs[key] # Undefined /\ ms < lastTs[key]
       THEN [ok |-> FALSE, reason |-> "out-of-order timestamp",
             lastTs |-> [lastTs EXCEPT ![key] = ms]]
       ELSE [ok |-> TRUE, reason |-> "", lastTs |-> [lastTs EXCEPT ![key] = ms]]

\* the result, and the map as the call leaves it
verifyTimestampConsistency(lastTs, m) ==
    LET key == <<m.patientId, m.measurementType>>
        ms == toMs(m.timestamp)
    IN IF ~isFinite(ms)
       THEN [ok |-> FALSE, reason |-> "invalid timestamp", lastTs |-> lastTs]
       ELSE IF lastTs[key] # Undefined /\ ms < lastTs[key]
       THEN [ok |-> FALSE, reason |-> "out-of-order timestamp", lastTs |-> lastTs]
       ELSE [ok |-> TRUE, reason |-> "", lastTs |-> [lastTs EXCEPT ![key] = ms]]

\* mutant: the plausibility check runs before the quality check
buildValidationResult_PlausibilityFirst(lastTs, m) ==
    IF m = NullMeasurement \/ m.patientId = "" \/ m.measurementType = ""
    THEN [ok |-> FALSE, reason |-> "missing fields", lastTs |-> lastTs]
    ELSE IF ~checkValuePlausibility(m)
    THEN [ok |-> FALSE, reason |-> "implausible value", lastTs |-> lastTs]
    ELSE IF ~validateSignalQuality(m)
    THEN [ok |-> FALSE, reason |-> "low signal quality", lastTs |-> lastTs]
    ELSE verifyTimestampConsistency(lastTs, m)

buildValidationResult(lastTs, m) ==
    IF m = NullMeasurement \/ m.patientId = "" \/ m.measurementType = ""
    THEN [ok |-> FALSE, reason |-> "missing fields", lastTs |-> lastTs]
    ELSE IF ~validateSignalQuality(m)
    THEN [ok |-> FALSE, reason |-> "low signal quality", lastTs |-> lastTs]
    ELSE IF ~checkValuePlausibility(m)
    THEN [ok |-> FALSE, reason |-> "implausible value", lastTs |-> lastTs]
    ELSE verifyTimestampConsistency(lastTs, m)

\* ------------------------------------------------------------------------
\* modules/signalProcessor.js
\* ------------------------------------------------------------------------
\* mutant: the newest entries are dropped instead of the oldest
ShiftWhileOver_DropsNewest(arr) ==
    IF Len(arr) > windowSize THEN SubSeq(arr, 1, windowSize) ELSE arr

RECURSIVE ShiftWhileOver(_)
ShiftWhileOver(arr) ==
    IF Len(arr) > windowSize THEN ShiftWhileOver(Tail(arr)) ELSE arr

updateMeasurementWindow(wins, patientId, measurementType, measurement) ==
    LET key == <<patientId, measurementType>>
        arr == Append(wins[key], measurement)
    IN [wins EXCEPT ![key] = ShiftWhileOver(arr)]

getSlidingWindow(wins, patientId, measurementType) ==
    LET key == <<patientId, measurementType>> IN
    IF key \in DOMAIN wins THEN wins[key] ELSE <<>>

\* mutant: the derived window carries the raw values
getSmoothedWindow_RawValues(wins, patientId, measurementType) ==
    LET rawWindow == getSlidingWindow(wins, patientId, measurementType) IN
    [i \in 1..Len(rawWindow) |->
        [m |-> rawWindow[i], value |-> Frac(rawWindow[i].value, 1)]]

\* mutant: the sum is divided by the configured window size
getSmoothedWindow_DividesByWindowSize(wins, patientId, measurementType) ==
    LET rawWindow == getSlidingWindow(wins, patientId, measurementType) IN
    IF Len(rawWindow) = 0 THEN rawWindow
    ELSE LET values == [i \in 1..Len(rawWindow) |-> Frac(rawWindow[i].value, 1)]
             avg == Frac(SumNum(values), windowSize)
         IN [i \in 1..Len(rawWindow) |-> [m |-> rawWindow[i], value |-> avg]]

getSmoothedWindow(wins, patientId, measurementType) ==
    LET rawWindow == getSlidingWindow(wins, patientId, measurementType) IN
    IF Len(rawWindow) = 0 THEN rawWindow
    ELSE LET values == [i \in 1..Len(rawWindow) |-> Frac(rawWindow[i].value, 1)]
             avg == Frac(SumNum(values), Len(values))
         IN [i \in 1..Len(rawWindow) |-> [m |-> rawWindow[i], value |-> avg]]

\* ------------------------------------------------------------------------
\* modules/anomalyDetector.js
\* ------------------------------------------------------------------------
NullRange == [min |-> Undefined, max |-> Undefined]

NullAnomaly ==
    [anomalyType |-> "null", measurementType |-> "", observedValue |-> Frac(0, 1),
     expectedRange |-> NullRange, detectionTimestamp |-> Undefined,
     slope |-> Frac(0, 1)]

createAnomaly(anomalyType, measurementType, observedValue, expectedRange, now, s) ==
    [anomalyType |-> anomalyType, measurementType |-> measurementType,
     observedValue |-> observedValue, expectedRange |-> expectedRange,
     detectionTimestamp |-> now, slope |-> s]

\* comparisons of a fraction with an integer
FracLt(f, k) == f.num < k * f.den
FracGt(f, k) == f.num > k * f.den
FracGeq(f, k) == f.num >= k * f.den
FracLeq(f, k) == f.num <= k * f.den

\* mutant: the oldest sample of the window is inspected
detectThresholdAnomaly_OldestSample(window, measurementType, now) ==
    IF Len(window) = 0 THEN NullAnomaly
    ELSE IF measurementType \notin DOMAIN thresholds THEN NullAnomaly
    ELSE LET t == thresholds[measurementType]
             last == window[1]
         IN IF measurementType = "SPO2" /\ t.min # Undefined /\ FracLt(last.value, t.min)
            THEN createAnomaly("THRESHOLD_LOW", measurementType, last.value, t, now,
                               Frac(0, 1))
            ELSE IF measurementType = "HEART_RATE" /\ t.max # Undefined
                    /\ FracGt(last.value, t.max)
            THEN createAnomaly("THRESHOLD_HIGH", measurementType, last.value, t, now,
                               Frac(0, 1))
            ELSE IF measurementType = "TEMPERATURE" /\ t.max # Undefined
                    /\ FracGeq(last.value, t.max)
            THEN createAnomaly("THRESHOLD_HIGH", measurementType, last.value, t, now,
                               Frac(0, 1))
            ELSE NullAnomaly

\* mutant: TEMPERATURE shares the exclusive comparison of HEART_RATE
detectThresholdAnomaly_TempExclusive(window, measurementType, now) ==
    IF Len(window) = 0 THEN NullAnomaly
    ELSE IF measurementType \notin DOMAIN thresholds THEN NullAnomaly
    ELSE LET t == thresholds[measurementType]
             last == window[Len(window)]
         IN IF measurementType = "SPO2" /\ t.min # Undefined /\ FracLt(last.value, t.min)
            THEN createAnomaly("THRESHOLD_LOW", measurementType, last.value, t, now,
                               Frac(0, 1))
            ELSE IF (measurementType = "HEART_RATE" \/ measurementType = "TEMPERATURE")
                    /\ t.max # Undefined /\ FracGt(last.value, t.max)
            THEN createAnomaly("THRESHOLD_HIGH", measurementType, last.value, t, now,
                               Frac(0, 1))
            ELSE NullAnomaly

detectThresholdAnomaly(window, measurementType, now) ==
    IF Len(window) = 0 THEN NullAnomaly
    ELSE IF measurementType \notin DOMAIN thresholds THEN NullAnomaly
    ELSE LET t == thresholds[measurementType]
             last == window[Len(window)]
         IN IF measurementType = "SPO2" /\ t.min # Undefined /\ FracLt(last.value, t.min)
            THEN createAnomaly("THRESHOLD_LOW", measurementType, last.value, t, now,
                               Frac(0, 1))
            ELSE IF measurementType = "HEART_RATE" /\ t.max # Undefined
                    /\ FracGt(last.value, t.max)
            THEN createAnomaly("THRESHOLD_HIGH", measurementType, last.value, t, now,
                               Frac(0, 1))
            ELSE IF measurementType = "TEMPERATURE" /\ t.max # Undefined
                    /\ FracGeq(last.value, t.max)
            THEN createAnomaly("THRESHOLD_HIGH", measurementType, last.value, t, now,
                               Frac(0, 1))
            ELSE NullAnomaly

\* mutant: a window shorter than minPoints is analysed as well
detectTrendAnomaly_AnyLength(window, measurementType, now) ==
    IF window = <<>> THEN NullAnomaly
    ELSE LET values == [i \in 1..Len(window) |-> window[i].value]
             s == slope(values)
         IN IF measurementType \notin DOMAIN slopeThresholds THEN NullAnomaly
            ELSE LET limit == slopeThresholds[measurementType]
                     badTrend ==
                         \/ measurementType = "SPO2" /\ FracLeq(s, limit)
                         \/ measurementType # "SPO2" /\ FracGeq(s, limit)
                 IN IF ~badTrend THEN NullAnomaly
                    ELSE createAnomaly("TREND", measurementType,
                                       window[Len(window)].value, NullRange, now, s)

\* mutant: a slope equal to the limit is no trend
detectTrendAnomaly_StrictlyBeyond(window, measurementType, now) ==
    IF Len(window) < minPoints THEN NullAnomaly
    ELSE LET values == [i \in 1..Len(window) |-> window[i].value]
             s == slope(values)
         IN IF measurementType \notin DOMAIN slopeThresholds THEN NullAnomaly
            ELSE LET limit == slopeThresholds[measurementType]
                     badTrend ==
                         \/ measurementType = "SPO2" /\ FracLt(s, limit)
                         \/ measurementType # "SPO2" /\ FracGt(s, limit)
                 IN IF ~badTrend THEN NullAnomaly
                    ELSE createAnomaly("TREND", measurementType,
                                       window[Len(window)].value, NullRange, now, s)

detectTrendAnomaly(window, measurementType, now) ==
    IF Len(window) < minPoints THEN NullAnomaly
    ELSE LET values == [i \in 1..Len(window) |-> window[i].value]
             s == slope(values)
         IN IF measurementType \notin DOMAIN slopeThresholds THEN NullAnomaly
            ELSE LET limit == slopeThresholds[measurementType]
                     badTrend ==
                         \/ measurementType = "SPO2" /\ FracLeq(s, limit)
                         \/ measurementType # "SPO2" /\ FracGeq(s, limit)
                 IN IF ~badTrend THEN NullAnomaly
                    ELSE createAnomaly("TREND", measurementType,
                                       window[Len(window)].value, NullRange, now, s)

\* ------------------------------------------------------------------------
\* modules/alertManager.js
\* ------------------------------------------------------------------------
\* mutant: the severity follows the anomaly type
classifySeverity_ByAnomalyType(anomaly) ==
    IF anomaly.anomalyType = "THRESHOLD_LOW" THEN "LOW" ELSE "HIGH"

classifySeverity(anomaly) ==
    IF anomaly.measurementType \in DOMAIN severityPolicy
    THEN severityPolicy[anomaly.measurementType]
    ELSE "MEDIUM"

\* mutant: the debounce key leaves the anomaly type out
applyDebounceRules_NoAnomalyTypeInKey(lastAlert, patientId, anomaly, now) ==
    LET key == <<patientId, anomaly.measurementType, "THRESHOLD_HIGH">>
        last == lastAlert[key]
    IN IF last # Undefined /\ last # 0 /\ now - last < debounceMs
       THEN [canEmit |-> FALSE, lastAlert |-> lastAlert]
       ELSE [canEmit |-> TRUE, lastAlert |-> [lastAlert EXCEPT ![key] = now]]

\* mutant: the debounce key leaves the patient out
applyDebounceRules_NoPatientInKey(lastAlert, patientId, anomaly, now) ==
    LET key == <<"P001", anomaly.measurementType, anomaly.anomalyType>>
        last == lastAlert[key]
    IN IF last # Undefined /\ last # 0 /\ now - last < debounceMs
       THEN [canEmit |-> FALSE, lastAlert |-> lastAlert]
       ELSE [canEmit |-> TRUE, lastAlert |-> [lastAlert EXCEPT ![key] = now]]

\* whether the alert may be emitted, and the map as the call leaves it
applyDebounceRules(lastAlert, patientId, anomaly, now) ==
    LET key == <<patientId, anomaly.measurementType, anomaly.anomalyType>>
        last == lastAlert[key]
    IN IF last # Undefined /\ last # 0 /\ now - last < debounceMs
       THEN [canEmit |-> FALSE, lastAlert |-> lastAlert]
       ELSE [canEmit |-> TRUE, lastAlert |-> [lastAlert EXCEPT ![key] = now]]

NullAlert ==
    [alertId |-> Undefined, patientId |-> "", alertType |-> "null",
     severityLevel |-> "", timestamp |-> Undefined,
     associatedAnomaly |-> NullAnomaly, contextualMetadata |-> ""]

\* mutant: the alert type is taken from the measurement type
createAlert_TypeFromMeasurement(patientId, anomaly, patientContext, now) ==
    [alertId |-> now, patientId |-> patientId, alertType |-> anomaly.measurementType,
     severityLevel |-> classifySeverity(anomaly), timestamp |-> now,
     associatedAnomaly |-> anomaly, contextualMetadata |-> patientContext]

createAlert(patientId, anomaly, patientContext, now) ==
    [alertId |-> now, patientId |-> patientId, alertType |-> anomaly.anomalyType,
     severityLevel |-> classifySeverity(anomaly), timestamp |-> now,
     associatedAnomaly |-> anomaly, contextualMetadata |-> patientContext]

publishAlert(alertEvent) == alertEvent

\* ------------------------------------------------------------------------
\* modules/offlineCacheManager.js
\* eid numbers the stored events in store order; the program has no such field
\* ------------------------------------------------------------------------
storeMeasurement(evs, measurement, eid) ==
    Append(evs, [type |-> "measurement", payload |-> measurement,
                 timestamp |-> toMs(measurement.timestamp), synced |-> FALSE,
                 eid |-> eid])

\* mutant: the alert is not put into the queue
storeAlert_Lost(evs, alertEvent, eid) == evs

storeAlert(evs, alertEvent, eid) ==
    Append(evs, [type |-> "alert", payload |-> alertEvent,
                 timestamp |-> alertEvent.timestamp, synced |-> FALSE,
                 eid |-> eid])

RECURSIVE InsertByTimestamp(_, _)
\* e goes after every element whose timestamp is not greater (a stable sort)
InsertByTimestamp(sorted, e) ==
    IF sorted = <<>> THEN <<e>>
    ELSE IF Head(sorted).timestamp - e.timestamp > 0
    THEN <<e>> \o sorted
    ELSE <<Head(sorted)>> \o InsertByTimestamp(Tail(sorted), e)

\* mutant: the queue is drained in store order
SortByTimestamp_StoreOrder(evs) == evs

RECURSIVE SortByTimestamp(_)
SortByTimestamp(evs) ==
    IF evs = <<>> THEN <<>>
    ELSE InsertByTimestamp(SortByTimestamp(SubSeq(evs, 1, Len(evs) - 1)),
                           evs[Len(evs)])

\* mutant: events of equal timestamp are drained last stored first
cacheFlushCachedData_NewestFirst(evs) ==
    SortByTimestamp([i \in 1..Len(evs) |-> evs[Len(evs) + 1 - i]])

cacheFlushCachedData(evs) == SortByTimestamp(evs)

\* ------------------------------------------------------------------------
\* State.  The program's own: isOnline and events (OfflineCacheManager),
\* windows (SignalProcessor), lastTimestampByStream (SignalValidator),
\* lastAlertByKey (AlertManager), histMeasurements and histAlerts
\* (HistoryRepository).  clock is the last wall-clock reading.  The rest
\* records the calls: req and result are the argument of the last call and
\* what it returned (result.finding is the anomaly the call found, also
\* when the debounce suppressed it); published lists the alerts handed to
\* publishAlert; returned[eid + 1] counts how often a flush returned the
\* event stored as number eid.  query is the last call made to a component
\* directly (the window of a stream asked of the SignalProcessor, a window
\* handed to the detector through analyzeThreshold or detectTrend, an array
\* handed to utils/stats) with what it returned; NoQuery after a call of the
\* pipeline.
\* ------------------------------------------------------------------------
\* ------------------------------------------------------------------------
\* uiServer.js: requests and their JSON bodies
\* ------------------------------------------------------------------------
\* requests are numbered in the order in which they arrive
RequestIds == 1..MaxRequests

\* a JSON body: the fields the handlers read; Undefined is a field left out
\* ("undefined" for the boolean field online)
Body(online, patientId, measurementType, value, signalQuality) ==
    [online |-> online, patientId |-> patientId,
     measurementType |-> measurementType, value |-> value,
     signalQuality |-> signalQuality]

NoBody == Body("undefined", "", "", Undefined, Undefined)

OnlineBodies == { Body("true", "", "", Undefined, Undefined), NoBody }

\* two heart rates of one stream (one without signalQuality) and a body
\* without measurementType
IngestBodies ==
    { Body("undefined", "P001", "HEART_RATE", 119, Undefined),
      Body("undefined", "P001", "HEART_RATE", 121, 10),
      Body("undefined", "P001", "", 119, 10) }

\* pc: "none" (not arrived), "readBody" (suspended in `await readBody`),
\* "done" (answered); arrived is the clock at arrival
NoRequest == [route |-> "", body |-> NoBody, pc |-> "none", arrived |-> Undefined]

\* Number(x) of a number or of undefined
Number(x) == IF x = Undefined THEN NotANumber ELSE x

\* !!x of a boolean or of undefined
ToBoolean(x) == x = "true"

\* mutant: the timestamp is the instant at which the request arrived
makeMeasurement_StampedOnArrival(request, now) ==
    Measurement(request.body.patientId, request.body.measurementType,
                Number(request.body.value), request.arrived,
                IF request.body.signalQuality = Undefined THEN 10
                ELSE Number(request.body.signalQuality))

\* timestamp: nowIso(), which toMs reads back as the same instant
makeMeasurement(request, now) ==
    Measurement(request.body.patientId, request.body.measurementType,
                Number(request.body.value), now,
                IF request.body.signalQuality = Undefined THEN 10
                ELSE Number(request.body.signalQuality))

VARIABLES isOnline, events, windows, lastTimestampByStream, lastAlertByKey,
          histMeasurements, histAlerts, clock, req, result, published,
          returned, query, requests

core == <<isOnline, events, windows, lastTimestampByStream, lastAlertByKey,
          histMeasurements, histAlerts>>

vars == <<isOnline, events, windows, lastTimestampByStream, lastAlertByKey,
          histMeasurements, histAlerts, clock, req, result, published,
          returned, query, requests>>

\* what EdgeProcessor and its components hold and what their callers see
edge == <<isOnline, events, windows, lastTimestampByStream, lastAlertByKey,
          histMeasurements, histAlerts, clock, req, result, published,
          returned, query>>

NoResult ==
    [status |-> "", reason |-> "", note |-> "", anomaly |-> NullAnomaly,
     alert |-> NullAlert, finding |-> NullAnomaly,
     measurements |-> <<>>, alerts |-> <<>>]

NoQuery ==
    [op |-> "", patientId |-> "", measurementType |-> "", window |-> <<>>,
     now |-> Undefined, value |-> <<>>]

Init ==
    /\ isOnline = TRUE
    /\ events = <<>>
    /\ windows = [k \in Streams |-> <<>>]
    /\ lastTimestampByStream = [k \in Streams |-> Undefined]
    /\ lastAlertByKey = [k \in DebounceKeys |-> Undefined]
    /\ histMeasurements = <<>>
    /\ histAlerts = <<>>
    /\ clock = 0
    /\ req = NullMeasurement
    /\ result = NoResult
    /\ published = <<>>
    /\ returned = <<>>
    /\ query = NoQuery
    /\ requests = [r \in RequestIds |-> NoRequest]

\* mutant: coming back ONLINE empties the queue
setOnline_DropsQueue(flag) ==
    /\ isOnline' = flag
    /\ req' = NullMeasurement
    /\ query' = NoQuery
    /\ result' = [NoResult EXCEPT !.status = "setOnline"]
    /\ events' = IF flag THEN <<>> ELSE events
    /\ UNCHANGED <<windows, lastTimestampByStream, lastAlertByKey,
                   histMeasurements, histAlerts, clock, published, returned>>

\* EdgeProcessor.setOnline
setOnline(flag) ==
    /\ isOnline' = flag
    /\ req' = NullMeasurement
    /\ query' = NoQuery
    /\ result' = [NoResult EXCEPT !.status = "setOnline"]
    /\ UNCHANGED <<events, windows, lastTimestampByStream, lastAlertByKey,
                   histMeasurements, histAlerts, clock, published, returned>>

\* mutant: the measurement is cached whatever the connectivity
handleMeasurementDelivery_AlsoOnline(evs, ret, measurement) ==
    [events |-> storeMeasurement(evs, measurement, Len(ret)),
     returned |-> Append(ret, 0)]

\* EdgeProcessor._handleMeasurementDelivery: the cache and the return counts
\* as the call leaves them
handleMeasurementDelivery(evs, ret, measurement) ==
    IF isOnline
    THEN [events |-> evs, returned |-> ret]
    ELSE [events |-> storeMeasurement(evs, measurement, Len(ret)),
          returned |-> Append(ret, 0)]

\* mutant: an alert is cached whatever the connectivity
handleAlertDelivery_AlwaysCaches(evs, ret, pub, alertEvent) ==
    [events |-> storeAlert(evs, alertEvent, Len(ret)),
     returned |-> Append(ret, 0), published |-> pub]

\* mutant: an alert raised OFFLINE is cached and published as well
handleAlertDelivery_CachesAndPublishes(evs, ret, pub, alertEvent) ==
    IF isOnline
    THEN [events |-> evs, returned |-> ret,
          published |-> Append(pub, publishAlert(alertEvent))]
    ELSE [events |-> storeAlert(evs, alertEvent, Len(ret)),
          returned |-> Append(ret, 0),
          published |-> Append(pub, publishAlert(alertEvent))]

\* EdgeProcessor._handleAlertDelivery: the cache, the return counts and the
\* published alerts as the call leaves them
handleAlertDelivery(evs, ret, pub, alertEvent) ==
    IF isOnline
    THEN [events |-> evs, returned |-> ret,
          published |-> Append(pub, publishAlert(alertEvent))]
    ELSE [events |-> storeAlert(evs, alertEvent, Len(ret)),
          returned |-> Append(ret, 0), published |-> pub]

\* EdgeProcessor.ingestMeasurement, for a measurement the validator rejects
IngestDiscarded(measurement, validation) ==
    /\ result' = [NoResult EXCEPT !.status = "discarded",
                                  !.reason = validation.reason]
    /\ lastTimestampByStream' = validation.lastTs
    /\ UNCHANGED <<isOnline, events, windows, lastAlertByKey, histMeasurements,
                   histAlerts, clock, published, returned>>

\* mutant: a measurement accepted OFFLINE is cached and not put into its window
IngestAccepted_WindowOnlyOnline(measurement, validation, now) ==
    LET patientId == measurement.patientId
        type == measurement.measurementType
        stored == handleMeasurementDelivery(events, returned, measurement)
        wins1 == IF isOnline
                 THEN updateMeasurementWindow(windows, patientId, type, measurement)
                 ELSE windows
        smoothedWindow == getSmoothedWindow(wins1, patientId, type)
        threshold == detectThresholdAnomaly(smoothedWindow, type, now)
        finding == IF threshold # NullAnomaly THEN threshold
                   ELSE detectTrendAnomaly(smoothedWindow, type, now)
        debounce == applyDebounceRules(lastAlertByKey, patientId, finding, now)
        alertEvent == createAlert(patientId, finding, type, now)
        delivery == handleAlertDelivery(stored.events, stored.returned,
                                        published, alertEvent)
    IN /\ lastTimestampByStream' = validation.lastTs
       /\ windows' = wins1
       /\ histMeasurements' = Append(histMeasurements, measurement)
       /\ UNCHANGED isOnline
       /\ IF finding = NullAnomaly
          THEN /\ result' = [NoResult EXCEPT !.status = "ok"]
               /\ events' = stored.events
               /\ returned' = stored.returned
               /\ UNCHANGED <<lastAlertByKey, histAlerts, published, clock>>
          ELSE /\ clock' = now
               /\ lastAlertByKey' = debounce.lastAlert
               /\ IF ~debounce.canEmit
                  THEN /\ result' = [NoResult EXCEPT !.status = "ok",
                                                     !.note = "debounced",
                                                     !.finding = finding]
                       /\ events' = stored.events
                       /\ returned' = stored.returned
                       /\ UNCHANGED <<histAlerts, published>>
                  ELSE /\ result' = [NoResult EXCEPT !.status = "alert",
                                                     !.alert = alertEvent,
                                                     !.anomaly = finding,
                                                     !.finding = finding]
                       /\ events' = delivery.events
                       /\ returned' = delivery.returned
                       /\ published' = delivery.published
                       /\ histAlerts' = Append(histAlerts, alertEvent)

\* mutant: the trend rule is asked first
IngestAccepted_TrendFirst(measurement, validation, now) ==
    LET patientId == measurement.patientId
        type == measurement.measurementType
        stored == handleMeasurementDelivery(events, returned, measurement)
        wins1 == updateMeasurementWindow(windows, patientId, type, measurement)
        smoothedWindow == getSmoothedWindow(wins1, patientId, type)
        trend == detectTrendAnomaly(smoothedWindow, type, now)
        finding == IF trend # NullAnomaly THEN trend
                   ELSE detectThresholdAnomaly(smoothedWindow, type, now)
        debounce == applyDebounceRules(lastAlertByKey, patientId, finding, now)
        alertEvent == createAlert(patientId, finding, type, now)
        delivery == handleAlertDelivery(stored.events, stored.returned,
                                        published, alertEvent)
    IN /\ lastTimestampByStream' = validation.lastTs
       /\ windows' = wins1
       /\ histMeasurements' = Append(histMeasurements, measurement)
       /\ UNCHANGED isOnline
       /\ IF finding = NullAnomaly
          THEN /\ result' = [NoResult EXCEPT !.status = "ok"]
               /\ events' = stored.events
               /\ returned' = stored.returned
               /\ UNCHANGED <<lastAlertByKey, histAlerts, published, clock>>
          ELSE /\ clock' = now
               /\ lastAlertByKey' = debounce.lastAlert
               /\ IF ~debounce.canEmit
                  THEN /\ result' = [NoResult EXCEPT !.status = "ok",
                                                     !.note = "debounced",
                                                     !.finding = finding]
                       /\ events' = stored.events
                       /\ returned' = stored.returned
                       /\ UNCHANGED <<histAlerts, published>>
                  ELSE /\ result' = [NoResult EXCEPT !.status = "alert",
                                                     !.alert = alertEvent,
                                                     !.anomaly = finding,
                                                     !.finding = finding]
                       /\ events' = delivery.events
                       /\ returned' = delivery.returned
                       /\ published' = delivery.published
                       /\ histAlerts' = Append(histAlerts, alertEvent)

\* EdgeProcessor.ingestMeasurement, for a measurement the validator accepts;
\* now is the wall clock during the call
IngestAccepted(measurement, validation, now) ==
    LET patientId == measurement.patientId
        type == measurement.measurementType
        stored == handleMeasurementDelivery(events, returned, measurement)
        wins1 == updateMeasurementWindow(windows, patientId, type, measurement)
        smoothedWindow == getSmoothedWindow(wins1, patientId, type)
        threshold == detectThresholdAnomaly(smoothedWindow, type, now)
        finding == IF threshold # NullAnomaly THEN threshold
                   ELSE detectTrendAnomaly(smoothedWindow, type, now)
        debounce == applyDebounceRules(lastAlertByKey, patientId, finding, now)
        alertEvent == createAlert(patientId, finding, type, now)
        delivery == handleAlertDelivery(stored.events, stored.returned,
                                        published, alertEvent)
    IN /\ lastTimestampByStream' = validation.lastTs
       /\ windows' = wins1
       /\ histMeasurements' = Append(histMeasurements, measurement)
       /\ UNCHANGED isOnline
       /\ IF finding = NullAnomaly
          THEN /\ result' = [NoResult EXCEPT !.status = "ok"]
               /\ events' = stored.events
               /\ returned' = stored.returned
               /\ UNCHANGED <<lastAlertByKey, histAlerts, published, clock>>
          ELSE /\ clock' = now
               /\ lastAlertByKey' = debounce.lastAlert
               /\ IF ~debounce.canEmit
                  THEN /\ result' = [NoResult EXCEPT !.status = "ok",
                                                     !.note = "debounced",
                                                     !.finding = finding]
                       /\ events' = stored.events
                       /\ returned' = stored.returned
                       /\ UNCHANGED <<histAlerts, published>>
                  ELSE /\ result' = [NoResult EXCEPT !.status = "alert",
                                                     !.alert = alertEvent,
                                                     !.anomaly = finding,
                                                     !.finding = finding]
                       /\ events' = delivery.events
                       /\ returned' = delivery.returned
                       /\ published' = delivery.published
                       /\ histAlerts' = Append(histAlerts, alertEvent)

ingestMeasurement(measurement) ==
    /\ req' = measurement
    /\ query' = NoQuery
    /\ LET validation == buildValidationResult(lastTimestampByStream, measurement)
       IN IF ~validation.ok
          THEN IngestDiscarded(measurement, validation)
          ELSE /\ Len(histMeasurements) < MaxAccepted
               /\ \E now \in clock..MaxClock :
                      IngestAccepted(measurement, validation, now)

Payloads(evs) == [i \in 1..Len(evs) |-> evs[i].payload]
IsMeasurementEvent(e) == e.type = "measurement"
IsAlertEvent(e) == e.type = "alert"

\* the return counts after a flush returned the events evs
CountReturned(ret, evs) ==
    [i \in 1..Len(ret) |->
        ret[i] + Cardinality({j \in 1..Len(evs) : evs[j].eid = i - 1})]

\* mutant: the flush hands the events back and leaves them in the queue
flushCachedData_KeepsQueue ==
    /\ req' = NullMeasurement
    /\ query' = NoQuery
    /\ IF ~isOnline
       THEN /\ result' = [NoResult EXCEPT !.status = "offline"]
            /\ UNCHANGED <<events, returned>>
       ELSE LET flushedEvents == cacheFlushCachedData(events)
                ms == SelectSeq(flushedEvents, IsMeasurementEvent)
                as == SelectSeq(flushedEvents, IsAlertEvent)
            IN /\ events' = flushedEvents
               /\ result' = [NoResult EXCEPT !.status = "flushed",
                                             !.measurements = Payloads(ms),
                                             !.alerts = Payloads(as)]
               /\ returned' = CountReturned(returned, ms \o as)
    /\ UNCHANGED <<isOnline, windows, lastTimestampByStream, lastAlertByKey,
                   histMeasurements, histAlerts, clock, published>>

\* mutant: the flush drains the queue whatever the connectivity
flushCachedData_AlsoOffline ==
    /\ req' = NullMeasurement
    /\ query' = NoQuery
    /\ LET flushedEvents == cacheFlushCachedData(events)
           ms == SelectSeq(flushedEvents, IsMeasurementEvent)
           as == SelectSeq(flushedEvents, IsAlertEvent)
       IN /\ events' = <<>>
          /\ result' = [NoResult EXCEPT !.status = "flushed",
                                        !.measurements = Payloads(ms),
                                        !.alerts = Payloads(as)]
          /\ returned' = CountReturned(returned, ms \o as)
    /\ UNCHANGED <<isOnline, windows, lastTimestampByStream, lastAlertByKey,
                   histMeasurements, histAlerts, clock, published>>

\* EdgeProcessor.flushCachedData
flushCachedData ==
    /\ req' = NullMeasurement
    /\ query' = NoQuery
    /\ IF ~isOnline
       THEN /\ result' = [NoResult EXCEPT !.status = "offline"]
            /\ UNCHANGED <<events, returned>>
       ELSE LET flushedEvents == cacheFlushCachedData(events)
                ms == SelectSeq(flushedEvents, IsMeasurementEvent)
                as == SelectSeq(flushedEvents, IsAlertEvent)
            IN /\ events' = <<>>
               /\ result' = [NoResult EXCEPT !.status = "flushed",
                                             !.measurements = Payloads(ms),
                                             !.alerts = Payloads(as)]
               /\ returned' = CountReturned(returned, ms \o as)
    /\ UNCHANGED <<isOnline, windows, lastTimestampByStream, lastAlertByKey,
                   histMeasurements, histAlerts, clock, published>>

\* ------------------------------------------------------------------------
\* Calls made to one component directly; none of them changes the state of
\* the pipeline
\* ------------------------------------------------------------------------
Answer(op, patientId, measurementType, window, now, value) ==
    /\ query' = [op |-> op, patientId |-> patientId,
                 measurementType |-> measurementType, window |-> window,
                 now |-> now, value |-> value]
    /\ UNCHANGED <<isOnline, events, windows, lastTimestampByStream,
                   lastAlertByKey, histMeasurements, histAlerts, clock, req,
                   result, published, returned>>

\* SignalProcessor.getSmoothedWindow
callGetSmoothedWindow(patientId, measurementType) ==
    Answer("getSmoothedWindow", patientId, measurementType, <<>>, Undefined,
           getSmoothedWindow(windows, patientId, measurementType))

\* EdgeProcessor.analyzeThreshold
analyzeThreshold(window, type) ==
    \E now \in clock..MaxClock :
        Answer("analyzeThreshold", "", type, window, now,
               detectThresholdAnomaly(window, type, now))

\* EdgeProcessor.detectTrend
detectTrend(window, type) ==
    \E now \in clock..MaxClock :
        Answer("detectTrend", "", type, window, now,
               detectTrendAnomaly(window, type, now))

\* utils/stats mean and slope
callMean(arr) == Answer("mean", "", "", arr, Undefined, mean(arr))

callSlope(values) == Answer("slope", "", "", values, Undefined, slope(values))

\* ------------------------------------------------------------------------
\* uiServer.js: the request handler.  A handler runs from the arrival of
\* its request to its first `await`, and from the end of the body to its
\* answer; in between, other handlers run.
\* ------------------------------------------------------------------------
Arrives(r) ==
    /\ requests[r].pc = "none"
    /\ \A q \in RequestIds : q < r => requests[q].pc # "none"

Answered(r) == requests' = [requests EXCEPT ![r].pc = "done"]

\* time passes between two events
tick ==
    /\ clock < MaxClock
    /\ clock' = clock + 1
    /\ UNCHANGED <<isOnline, events, windows, lastTimestampByStream,
                   lastAlertByKey, histMeasurements, histAlerts, req, result,
                   published, returned, query, requests>>

\* POST /online or POST /ingest arrives: the handler suspends in readBody
receiveRequest(r, route, body) ==
    /\ Arrives(r)
    /\ requests' = [requests EXCEPT
                       ![r] = [route |-> route, body |-> body,
                               pc |-> "readBody", arrived |-> clock]]
    /\ UNCHANGED edge

\* POST /online, once the body is read
handleOnline(r) ==
    /\ requests[r].pc = "readBody"
    /\ requests[r].route = "/online"
    /\ setOnline(ToBoolean(requests[r].body.online))
    /\ Answered(r)

\* POST /ingest, once the body is read
handleIngest(r) ==
    /\ requests[r].pc = "readBody"
    /\ requests[r].route = "/ingest"
    /\ IF requests[r].body.patientId = "" \/ requests[r].body.measurementType = ""
       THEN UNCHANGED edge
       ELSE ingestMeasurement(makeMeasurement(requests[r], clock))
    /\ Answered(r)

\* POST /flush: the handler reads no body and answers at once
handleFlush(r) ==
    /\ Arrives(r)
    /\ flushCachedData
    /\ requests' = [requests EXCEPT
                       ![r] = [route |-> "/flush", body |-> NoBody,
                               pc |-> "done", arrived |-> clock]]

Next ==
    \/ \E measurement \in Inputs :
           ingestMeasurement(measurement) /\ UNCHANGED requests
    \/ \E flag \in BOOLEAN : setOnline(flag) /\ UNCHANGED requests
    \/ flushCachedData /\ UNCHANGED requests

Spec == Init /\ [][Next]_vars

NextTypes ==
    \/ \E measurement \in TypeInputs :
           ingestMeasurement(measurement) /\ UNCHANGED requests
    \/ \E flag \in BOOLEAN : setOnline(flag) /\ UNCHANGED requests
    \/ flushCachedData /\ UNCHANGED requests

SpecTypes == Init /\ [][NextTypes]_vars

NextValidation ==
    \/ \E measurement \in ValidationInputs :
           ingestMeasurement(measurement) /\ UNCHANGED requests
    \/ \E flag \in BOOLEAN : setOnline(flag) /\ UNCHANGED requests
    \/ flushCachedData /\ UNCHANGED requests

SpecValidation == Init /\ [][NextValidation]_vars

NextTrend ==
    \/ \E measurement \in TrendInputs :
           ingestMeasurement(measurement) /\ UNCHANGED requests
    \/ \E flag \in BOOLEAN : setOnline(flag) /\ UNCHANGED requests
    \/ flushCachedData /\ UNCHANGED requests

SpecTrend == Init /\ [][NextTrend]_vars

NextPatients ==
    \/ \E measurement \in PatientInputs :
           ingestMeasurement(measurement) /\ UNCHANGED requests
    \/ \E flag \in BOOLEAN : setOnline(flag) /\ UNCHANGED requests
    \/ flushCachedData /\ UNCHANGED requests

SpecPatients == Init /\ [][NextPatients]_vars

NextPriority ==
    \/ \E measurement \in PriorityInputs :
           ingestMeasurement(measurement) /\ UNCHANGED requests
    \/ \E flag \in BOOLEAN : setOnline(flag) /\ UNCHANGED requests
    \/ flushCachedData /\ UNCHANGED requests

SpecPriority == Init /\ [][NextPriority]_vars

\* a processor that stays ONLINE
NextTypesOnline ==
    \E measurement \in TypeInputs :
        ingestMeasurement(measurement) /\ UNCHANGED requests

SpecTypesOnline == Init /\ [][NextTypesOnline]_vars

\* a processor that stays ONLINE
NextKeys ==
    \E measurement \in KeyInputs :
        ingestMeasurement(measurement) /\ UNCHANGED requests

SpecKeys == Init /\ [][NextKeys]_vars

NextSmoothing ==
    \/ \E measurement \in TrendInputs :
           ingestMeasurement(measurement) /\ UNCHANGED requests
    \/ \E patientId \in QueriedPatients, measurementType \in KnownTypes :
           callGetSmoothedWindow(patientId, measurementType)
               /\ UNCHANGED requests

SpecSmoothing == Init /\ [][NextSmoothing]_vars

\* the detector keeps no state: each call is made on the constructed processor
NextDetector ==
    \/ /\ query = NoQuery
       /\ \E window \in ThresholdWindows, type \in DetectorTypes :
              analyzeThreshold(window, type) /\ UNCHANGED requests
    \/ /\ query = NoQuery
       /\ \E window \in TrendWindows, type \in DetectorTypes :
              detectTrend(window, type) /\ UNCHANGED requests

SpecDetector == Init /\ [][NextDetector]_vars

NextStats ==
    \/ \E arr \in StatArrays : callMean(arr) /\ UNCHANGED requests
    \/ \E values \in StatArrays : callSlope(values) /\ UNCHANGED requests

SpecStats == Init /\ [][NextStats]_vars

\* the processor behind the HTTP front end
NextServer ==
    \/ tick
    \/ \E r \in RequestIds, body \in OnlineBodies :
           receiveRequest(r, "/online", body)
    \/ \E r \in RequestIds, body \in IngestBodies :
           receiveRequest(r, "/ingest", body)
    \/ \E r \in RequestIds : handleOnline(r)
    \/ \E r \in RequestIds : handleIngest(r)
    \/ \E r \in RequestIds : handleFlush(r)

SpecServer == Init /\ [][NextServer]_vars

\* ------------------------------------------------------------------------
\* Vocabulary of the properties
\* ------------------------------------------------------------------------
StreamOf(m) == <<m.patientId, m.measurementType>>

\* the measurements of stream k the pipeline accepted, in order
Accepted(k) == SelectSeq(histMeasurements, LAMBDA m : StreamOf(m) = k)

LastN(seq, n) ==
    IF Len(seq) <= n THEN seq ELSE SubSeq(seq, Len(seq) - n + 1, Len(seq))

\* the last call was ingestMeasurement and it accepted req
AcceptedNow == result.status \in {"ok", "alert"}

KeyOfAlert(a) == <<a.patientId, a.associatedAnomaly.measurementType, a.alertType>>

CountIn(seq, x) == Cardinality({i \in 1..Len(seq) : seq[i] = x})

\* ------------------------------------------------------------------------
\* C1: every raw window has at most windowSize entries and holds exactly
\* the last windowSize accepted measurements of its stream, in the order
\* they were accepted.
\* ------------------------------------------------------------------------
C1_WindowIsLastAccepted ==
    \A k \in Streams :
        /\ Len(windows[k]) <= windowSize
        /\ windows[k] = LastN(Accepted(k), windowSize)

C1_Witness ==
    \E k \in Streams :
        /\ Len(Accepted(k)) > windowSize
        /\ \A i \in 1..Len(windows[k]) : windows[k][i] # Accepted(k)[1]

\* ------------------------------------------------------------------------
\* C2: a cached event is never lost.  Every stored event is either in the
\* cache once and was never returned, or is out of the cache and was
\* returned once; a measurement accepted OFFLINE and an alert emitted
\* OFFLINE are appended to the cache; every call other than a flush made
\* ONLINE keeps the cached events; a flush made ONLINE returns every cached
\* event once and empties the cache.
\* ------------------------------------------------------------------------
CacheAccounted ==
    /\ \A j \in 1..Len(events) : events[j].eid < Len(returned)
    /\ \A i \in 1..Len(returned) :
           LET n == Cardinality({j \in 1..Len(events) : events[j].eid = i - 1})
           IN \/ n = 1 /\ returned[i] = 0
              \/ n = 0 /\ returned[i] = 1

SameTypeAndPayload(e, f) == e.type = f.type /\ e.payload = f.payload

FlushReturnsAll ==
    result'.status = "flushed" =>
        /\ events' = <<>>
        /\ Len(result'.measurements) + Len(result'.alerts) = Len(events)
        /\ \A j \in 1..Len(events) :
               LET held == Cardinality({i \in 1..Len(events) :
                                           SameTypeAndPayload(events[i], events[j])})
               IN IF events[j].type = "measurement"
                  THEN CountIn(result'.measurements, events[j].payload) = held
                  ELSE CountIn(result'.alerts, events[j].payload) = held

OtherCallsKeepCache ==
    result'.status # "flushed" =>
        /\ Len(events') >= Len(events)
        /\ SubSeq(events', 1, Len(events)) = events

OfflineCallStores ==
    (~isOnline /\ result'.status \in {"ok", "alert"}) =>
        /\ Len(events') = Len(events) + (IF result'.status = "alert" THEN 2 ELSE 1)
        /\ events'[Len(events) + 1].type = "measurement"
        /\ events'[Len(events) + 1].payload = req'
        /\ result'.status = "alert" =>
               /\ events'[Len(events) + 2].type = "alert"
               /\ events'[Len(events) + 2].payload = result'.alert

C2_NoCachedEventLost ==
    [][CacheAccounted' /\ FlushReturnsAll /\ OtherCallsKeepCache
       /\ OfflineCallStores]_vars

C2_Witness ==
    /\ result.status = "flushed"
    /\ Len(result.measurements) >= 1
    /\ Len(result.alerts) >= 1
    /\ \E i \in 1..Len(returned) : returned[i] = 1

\* ------------------------------------------------------------------------
\* C3: when a call finds an anomaly whose key (patientId, measurementType,
\* anomalyType) is that of an alert emitted less than debounceMs earlier, it
\* returns "ok" with note "debounced" and emits no alert; when every alert
\* of the key was emitted debounceMs or more earlier, it returns "alert".
\* ------------------------------------------------------------------------
EmissionsOf(key) ==
    {histAlerts[i].timestamp :
        i \in {j \in 1..Len(histAlerts) : KeyOfAlert(histAlerts[j]) = key}}

C3_Debounce ==
    [][(result'.status \in {"ok", "alert"} /\ result'.finding # NullAnomaly) =>
          LET found == result'.finding
              key == <<req'.patientId, found.measurementType, found.anomalyType>>
              now == found.detectionTimestamp
              prior == EmissionsOf(key)
          IN /\ (\E t \in prior : now - t < debounceMs) =>
                    /\ result'.status = "ok"
                    /\ result'.note = "debounced"
                    /\ histAlerts' = histAlerts
             /\ (prior # {} /\ \A t \in prior : now - t >= debounceMs) =>
                    result'.status = "alert"]_vars

\* ------------------------------------------------------------------------
\* C4: any two alerts emitted for the same key (patientId, measurementType,
\* anomalyType) have emission instants at least debounceMs apart.
\* ------------------------------------------------------------------------
C4_RateLimit ==
    \A i, j \in 1..Len(histAlerts) :
        (i < j /\ KeyOfAlert(histAlerts[i]) = KeyOfAlert(histAlerts[j])) =>
            histAlerts[j].timestamp - histAlerts[i].timestamp >= debounceMs

\* ------------------------------------------------------------------------
\* C5 as stated: every measurement whose signalQuality is below 0.3 is
\* discarded with reason "low signal quality".
\* ------------------------------------------------------------------------
LowQuality(m) == m.signalQuality # NotANumber /\ m.signalQuality < MIN_SIGNAL_QUALITY

IngestReturned == result.status \in {"discarded", "ok", "alert"}

C5_LowQualityAlwaysThatReason ==
    (IngestReturned /\ req # NullMeasurement /\ LowQuality(req)) =>
        /\ result.status = "discarded"
        /\ result.reason = "low signal quality"

\* ------------------------------------------------------------------------
\* C5 amended: every measurement whose signalQuality is below 0.3 is
\* discarded, with reason "low signal quality" when its patientId and
\* measurementType are present.
\* ------------------------------------------------------------------------
C5_LowQualityDiscarded ==
    (IngestReturned /\ req # NullMeasurement /\ LowQuality(req)) =>
        /\ result.status = "discarded"
        /\ (req.patientId # "" /\ req.measurementType # "") =>
               result.reason = "low signal quality"

C5_Witness ==
    /\ result.status = "discarded"
    /\ result.reason = "low signal quality"
    /\ LowQuality(req)
    /\ checkValuePlausibility(req)

\* ------------------------------------------------------------------------
\* C6: a measurement whose type has no plausible range, whose value is not
\* a number or whose value lies outside the range of its type is discarded,
\* with reason "implausible value" when the structural and the quality
\* check pass.
\* ------------------------------------------------------------------------
Implausible(m) ==
    \/ m.measurementType \notin DOMAIN plausibleRanges
    \/ m.value = NotANumber
    \/ m.value < plausibleRanges[m.measurementType].min
    \/ m.value > plausibleRanges[m.measurementType].max

C6_ImplausibleDiscarded ==
    (IngestReturned /\ Implausible(req)) =>
        /\ result.status = "discarded"
        /\ (/\ req.patientId # ""
            /\ req.measurementType # ""
            /\ req.signalQuality # NotANumber
            /\ req.signalQuality >= MIN_SIGNAL_QUALITY) =>
               result.reason = "implausible value"

C6_Witness ==
    /\ result.status = "discarded"
    /\ result.reason = "implausible value"
    /\ req.measurementType \in DOMAIN plausibleRanges
    /\ req.value > plausibleRanges[req.measurementType].max

\* ------------------------------------------------------------------------
\* C7: a measurement that passes the other checks is discarded as
\* "out-of-order timestamp" when its timestamp is earlier than the last
\* accepted one of its stream, and is accepted when it is equal or later.
\* ------------------------------------------------------------------------
OtherwiseValid(m) ==
    /\ m.patientId # ""
    /\ m.measurementType # ""
    /\ validateSignalQuality(m)
    /\ checkValuePlausibility(m)
    /\ m.timestamp # BadTimestamp

C7_TimestampOrder ==
    [][(result'.status \in {"discarded", "ok", "alert"} /\ OtherwiseValid(req')) =>
          LET last == lastTimestampByStream[StreamOf(req')]
          IN IF last # Undefined /\ req'.timestamp < last
             THEN /\ result'.status = "discarded"
                  /\ result'.reason = "out-of-order timestamp"
             ELSE result'.status \in {"ok", "alert"}]_vars

C7_Witness ==
    /\ result.status = "discarded"
    /\ result.reason = "out-of-order timestamp"
    /\ Len(histMeasurements) >= 2
    /\ histMeasurements[1] = histMeasurements[2]

\* ------------------------------------------------------------------------
\* C8: a call that returns "discarded" leaves the last-timestamp map, the
\* windows, the debounce map, the offline cache and the history as they
\* were.
\* ------------------------------------------------------------------------
C8_DiscardChangesNothing ==
    [][result'.status = "discarded" => UNCHANGED core]_vars

C8_Witness ==
    /\ result.status = "discarded"
    /\ result.reason = "out-of-order timestamp"
    /\ events # <<>>
    /\ histAlerts # <<>>

\* ------------------------------------------------------------------------
\* C9: the first accepted measurement of a stream gives an alert of type
\* THRESHOLD_HIGH exactly when HEART_RATE > max or TEMPERATURE >= max, an
\* alert of type THRESHOLD_LOW exactly when SPO2 < min, and "ok" otherwise.
\* ------------------------------------------------------------------------
AlertOfType(anomalyType) ==
    /\ result.status = "alert"
    /\ result.anomaly.anomalyType = anomalyType
    /\ result.alert.alertType = anomalyType

C9_FirstMeasurementThreshold ==
    (AcceptedNow /\ Len(Accepted(StreamOf(req))) = 1) =>
        /\ req.measurementType = "HEART_RATE" =>
               /\ AlertOfType("THRESHOLD_HIGH") <=> req.value > HeartRateMax
               /\ req.value <= HeartRateMax => result.status = "ok"
        /\ req.measurementType = "TEMPERATURE" =>
               /\ AlertOfType("THRESHOLD_HIGH") <=> req.value >= TemperatureMax
               /\ req.value < TemperatureMax => result.status = "ok"
        /\ req.measurementType = "SPO2" =>
               /\ AlertOfType("THRESHOLD_LOW") <=> req.value < Spo2Min
               /\ req.value >= Spo2Min => result.status = "ok"

C9_Witness ==
    /\ Len(Accepted(<<"P001", "TEMPERATURE">>)) = 1
    /\ req.measurementType = "TEMPERATURE"
    /\ req.value = TemperatureMax
    /\ AlertOfType("THRESHOLD_HIGH")
    /\ Len(Accepted(<<"P001", "HEART_RATE">>)) = 1
    /\ histMeasurements[1].value = HeartRateMax
    /\ histAlerts[1].alertType = "THRESHOLD_HIGH"
    /\ Len(histAlerts) = 1

\* ------------------------------------------------------------------------
\* C10: whenever an accepted HEART_RATE measurement's own value exceeds the
\* configured max, the call finds a THRESHOLD_HIGH anomaly (it returns
\* "alert", or "ok" with note "debounced").
\* ------------------------------------------------------------------------
C10_ThresholdOnOwnValue ==
    (AcceptedNow /\ req.measurementType = "HEART_RATE" /\ req.value > HeartRateMax) =>
        /\ result.finding.anomalyType = "THRESHOLD_HIGH"
        /\ result.status = "alert" \/ result.note = "debounced"

\* ------------------------------------------------------------------------
\* C11: when the raw window of a HEART_RATE stream holds at least minPoints
\* accepted measurements, each at least the HEART_RATE slope limit above the
\* one before it and none above the max threshold, the call that accepted
\* the last of them finds an anomaly of type TREND.
\* ------------------------------------------------------------------------
RisesBySlopeLimit(w) ==
    /\ Len(w) >= minPoints
    /\ \A i \in 1..(Len(w) - 1) : w[i + 1].value - w[i].value >= HeartRateSlopeLimit
    /\ \A i \in 1..Len(w) : w[i].value <= HeartRateMax

C11_TrendReported ==
    (/\ AcceptedNow
     /\ req.measurementType = "HEART_RATE"
     /\ RisesBySlopeLimit(windows[StreamOf(req)])) =>
        result.finding.anomalyType = "TREND"

\* ------------------------------------------------------------------------
\* C12: a successful flush drains the events in ascending order of the
\* timestamp each payload carries, not in store order: the returned
\* measurements and the returned alerts are each sorted ascending by
\* timestamp, are what the drained sequence holds of their type, in its
\* order, and together are exactly the drained events.
\* ------------------------------------------------------------------------
SortedAscending(payloads) ==
    \A i, j \in 1..Len(payloads) :
        i < j => payloads[i].timestamp <= payloads[j].timestamp

\* the place of the event stored at index i in the chronological order of
\* evs: after the events with a smaller timestamp and after those stored
\* earlier with the same timestamp
ChronologicalRank(evs, i) ==
    1 + Cardinality({j \in 1..Len(evs) :
                        \/ evs[j].payload.timestamp < evs[i].payload.timestamp
                        \/ /\ evs[j].payload.timestamp = evs[i].payload.timestamp
                           /\ j < i})

Chronological(evs) ==
    [k \in 1..Len(evs) |->
        evs[CHOOSE i \in 1..Len(evs) : ChronologicalRank(evs, i) = k]]

OfType(evs, type) == SelectSeq(evs, LAMBDA e : e.type = type)

C12_ChronologicalFlush ==
    [][result'.status = "flushed" =>
          LET drained == Chronological(events)
          IN /\ SortedAscending(result'.measurements)
             /\ SortedAscending(result'.alerts)
             /\ result'.measurements = Payloads(OfType(drained, "measurement"))
             /\ result'.alerts = Payloads(OfType(drained, "alert"))
             /\ Len(result'.measurements) + Len(result'.alerts) = Len(events)]_vars

C12_Witness ==
    /\ result.status = "flushed"
    /\ Len(result.measurements) = 2
    /\ result.measurements[1].timestamp < result.measurements[2].timestamp
    /\ histMeasurements = <<result.measurements[2], result.measurements[1]>>
    /\ Len(result.alerts) = 1

\* ------------------------------------------------------------------------
\* C13: while ONLINE, a flush made immediately after another flush returns
\* "flushed" with an empty measurements and an empty alerts list, and so
\* does a flush of an empty cache.
\* ------------------------------------------------------------------------
FlushReturned == result'.status \in {"flushed", "offline"}

FlushedNothing ==
    /\ result'.status = "flushed"
    /\ result'.measurements = <<>>
    /\ result'.alerts = <<>>

C13_FlushIdempotent ==
    [][FlushReturned =>
          /\ (isOnline /\ result.status = "flushed") => FlushedNothing
          /\ (isOnline /\ events = <<>>) => FlushedNothing]_vars

C13_Witness ==
    /\ result.status = "flushed"
    /\ result.measurements = <<>>
    /\ result.alerts = <<>>
    /\ events = <<>>
    /\ \E i \in 1..Len(returned) : returned[i] = 1

\* ------------------------------------------------------------------------
\* C14: a flush called while OFFLINE returns status "offline" with nothing
\* flushed and leaves the offline cache and all other state unchanged; a
\* flush called while ONLINE returns status "flushed", so the two results
\* always differ.
\* ------------------------------------------------------------------------
C14_OfflineFlushIsNoOp ==
    [][FlushReturned =>
          /\ ~isOnline =>
                 /\ result'.status = "offline"
                 /\ result'.measurements = <<>>
                 /\ result'.alerts = <<>>
                 /\ UNCHANGED <<core, clock, published, returned>>
          /\ isOnline => result'.status = "flushed"]_vars

C14_Witness ==
    /\ result.status = "offline"
    /\ ~isOnline
    /\ Len(events) >= 2

\* ------------------------------------------------------------------------
\* C15: setOnline changes nothing but the connectivity flag: the cached
\* events, the windows, the debounce map and the timestamp map (and the
\* history) are as before the call, whatever the flag; the only call after
\* which a cached event is gone from the cache is a successful flush.
\* ------------------------------------------------------------------------
KeepsCachedEvents ==
    /\ Len(events') >= Len(events)
    /\ SubSeq(events', 1, Len(events)) = events

C15_SetOnlineOnlyFlag ==
    [][/\ result'.status = "setOnline" =>
              /\ isOnline' \in BOOLEAN
              /\ UNCHANGED <<events, windows, lastAlertByKey,
                             lastTimestampByStream, histMeasurements,
                             histAlerts, clock, published, returned>>
       /\ ~KeepsCachedEvents => result'.status = "flushed"]_vars

C15_Witness ==
    /\ result.status = "setOnline"
    /\ isOnline
    /\ Len(events) >= 2
    /\ \E i \in 1..Len(returned) : returned[i] = 1

\* ------------------------------------------------------------------------
\* C16: an alert emitted by a call that runs ONLINE is published once and
\* not cached; one emitted by a call that runs OFFLINE is appended to the
\* cache once and not published; no other call publishes or caches an
\* alert, so no alert is both published and cached, nor cached twice.
\* ------------------------------------------------------------------------
CachedAlerts(evs) == Payloads(OfType(evs, "alert"))

C16_AlertDeliveredOnce ==
    [][/\ (result'.status = "alert" /\ isOnline) =>
              /\ published' = Append(published, result'.alert)
              /\ events' = events
       /\ (result'.status = "alert" /\ ~isOnline) =>
              /\ published' = published
              /\ CachedAlerts(events') = Append(CachedAlerts(events), result'.alert)
              /\ events'[Len(events')].payload = result'.alert
       /\ result'.status # "alert" =>
              /\ published' = published
              /\ \/ CachedAlerts(events') = CachedAlerts(events)
                 \/ result'.status = "flushed"]_vars

C16_Witness ==
    /\ result.status = "alert"
    /\ ~isOnline
    /\ Len(published) = 1
    /\ Len(CachedAlerts(events)) = 1
    /\ Len(histAlerts) = 2

\* ------------------------------------------------------------------------
\* C17: any two alerts created over the lifetime of an EdgeProcessor have
\* different alertId values, also when they are created at the same clock
\* instant.
\* ------------------------------------------------------------------------
C17_AlertIdUnique ==
    \A i, j \in 1..Len(histAlerts) :
        i < j => histAlerts[i].alertId # histAlerts[j].alertId

\* ------------------------------------------------------------------------
\* C18: a call for patient P changes no window, no last-timestamp entry and
\* no debounce entry of another patient, and what it returns (status,
\* reason, note, anomaly) is what the pipeline computes from P's own
\* entries alone: the measurements of other patients, interleaved or not,
\* do not influence it.
\* ------------------------------------------------------------------------
IngestStep == result'.status \in {"discarded", "ok", "alert"}

\* the entries of patient p in the map f, every other entry as constructed
Own(f, p, initial) == [k \in DOMAIN f |-> IF k[1] = p THEN f[k] ELSE initial]

\* what ingestMeasurement returns for m at instant now, from the validator's
\* map, the windows and the debounce map
Outcome(lastTs, wins, lastAlert, m, now) ==
    LET validation == buildValidationResult(lastTs, m)
        wins1 == updateMeasurementWindow(wins, m.patientId, m.measurementType, m)
        smoothedWindow == getSmoothedWindow(wins1, m.patientId, m.measurementType)
        threshold == detectThresholdAnomaly(smoothedWindow, m.measurementType, now)
        finding == IF threshold # NullAnomaly THEN threshold
                   ELSE detectTrendAnomaly(smoothedWindow, m.measurementType, now)
    IN IF ~validation.ok
       THEN [status |-> "discarded", reason |-> validation.reason, note |-> "",
             finding |-> NullAnomaly]
       ELSE IF finding = NullAnomaly
       THEN [status |-> "ok", reason |-> "", note |-> "", finding |-> NullAnomaly]
       ELSE IF ~applyDebounceRules(lastAlert, m.patientId, finding, now).canEmit
       THEN [status |-> "ok", reason |-> "", note |-> "debounced",
             finding |-> finding]
       ELSE [status |-> "alert", reason |-> "", note |-> "", finding |-> finding]

OtherPatientsUntouched ==
    /\ \A k \in Streams :
           k[1] # req'.patientId =>
               /\ windows'[k] = windows[k]
               /\ lastTimestampByStream'[k] = lastTimestampByStream[k]
    /\ \A k \in DebounceKeys :
           k[1] # req'.patientId => lastAlertByKey'[k] = lastAlertByKey[k]

C18_PatientsIndependent ==
    [][IngestStep =>
          /\ OtherPatientsUntouched
          /\ LET p == req'.patientId
                 out == Outcome(Own(lastTimestampByStream, p, Undefined),
                                Own(windows, p, <<>>),
                                Own(lastAlertByKey, p, Undefined), req', clock')
             IN /\ result'.status = out.status
                /\ result'.reason = out.reason
                /\ result'.note = out.note
                /\ result'.finding = out.finding]_vars

C18_Witness ==
    /\ result.status = "alert"
    /\ req.patientId = "P002"
    /\ clock = 1
    /\ lastAlertByKey[<<"P001", "HEART_RATE", "THRESHOLD_HIGH">>] = 1
    /\ lastAlertByKey[<<"P002", "HEART_RATE", "THRESHOLD_HIGH">>] = 1
    /\ Len(windows[<<"P001", "HEART_RATE">>]) = 1

\* ------------------------------------------------------------------------
\* C19: ingestMeasurement returns a result for every input.  For null, for
\* a missing patientId or measurementType, for a signalQuality or value
\* that is not a number and for a timestamp that does not parse the status
\* is "discarded"; every discard carries one of the five reasons; every
\* other result has status "ok" or "alert", and a debounced anomaly is
\* reported with status "ok".
\* ------------------------------------------------------------------------
DiscardReasons ==
    {"missing fields", "low signal quality", "implausible value",
     "invalid timestamp", "out-of-order timestamp"}

Malformed(m) ==
    \/ m.patientId = ""
    \/ m.measurementType = ""
    \/ m.signalQuality = NotANumber
    \/ m.value = NotANumber
    \/ m.timestamp = BadTimestamp

C19_AlwaysAResult ==
    /\ \A m \in ValidationInputs : Malformed(m) => ENABLED ingestMeasurement(m)
    /\ IngestReturned =>
           /\ Malformed(req) => result.status = "discarded"
           /\ result.status = "discarded" => result.reason \in DiscardReasons
           /\ result.status # "discarded" =>
                  /\ result.status \in {"ok", "alert"}
                  /\ result.reason = ""
           /\ result.note = "debounced" =>
                  /\ result.status = "ok"
                  /\ result.finding # NullAnomaly

C19_Witness ==
    /\ req = NullMeasurement
    /\ result.status = "discarded"
    /\ result.reason = "missing fields"
    /\ Len(histAlerts) >= 1
    /\ Len(histMeasurements) = MaxAccepted

\* ------------------------------------------------------------------------
\* C20: the validation checks run in the order structural, signal quality,
\* plausibility, timestamp, and the reason returned is that of the first
\* check that fails; the last-timestamp map is written only by a call
\* whose measurement passes all of them.
\* ------------------------------------------------------------------------
MissingFields(m) == m.patientId = "" \/ m.measurementType = ""

QualityFails(m) ==
    m.signalQuality = NotANumber \/ m.signalQuality < MIN_SIGNAL_QUALITY

DiscardedFor(reason) ==
    /\ result'.status = "discarded"
    /\ result'.reason = reason
    /\ UNCHANGED lastTimestampByStream

C20_FirstFailingCheck ==
    [][IngestStep =>
          LET m == req' IN
          IF MissingFields(m) THEN DiscardedFor("missing fields")
          ELSE IF QualityFails(m) THEN DiscardedFor("low signal quality")
          ELSE IF Implausible(m) THEN DiscardedFor("implausible value")
          ELSE IF m.timestamp = BadTimestamp THEN DiscardedFor("invalid timestamp")
          ELSE IF /\ lastTimestampByStream[StreamOf(m)] # Undefined
                  /\ m.timestamp < lastTimestampByStream[StreamOf(m)]
          THEN DiscardedFor("out-of-order timestamp")
          ELSE /\ result'.status \in {"ok", "alert"}
               /\ lastTimestampByStream' =
                      [lastTimestampByStream EXCEPT ![StreamOf(m)] = m.timestamp]]_vars

C20_Witness ==
    /\ result.status = "discarded"
    /\ result.reason = "low signal quality"
    /\ QualityFails(req)
    /\ Implausible(req)
    /\ lastTimestampByStream[StreamOf(req)] = 1


\* ------------------------------------------------------------------------
\* C21: the severityLevel of every emitted alert (returned, saved to the
\* history, published or cached) is the severityPolicy entry of its
\* anomaly's measurementType, "MEDIUM" when the policy has no entry for the
\* type; two alerts of the same measurementType have the same severity,
\* whatever their anomaly type, observed value and patient.
\* ------------------------------------------------------------------------
PolicySeverity(measurementType) ==
    IF measurementType \in DOMAIN severityPolicy
    THEN severityPolicy[measurementType]
    ELSE "MEDIUM"

EmittedAlerts ==
    {histAlerts[i] : i \in 1..Len(histAlerts)}
        \cup {published[i] : i \in 1..Len(published)}
        \cup {events[i].payload : i \in {j \in 1..Len(events) : events[j].type = "alert"}}
        \cup (IF result.status = "alert" THEN {result.alert} ELSE {})

C21_SeverityFromPolicy ==
    /\ \A a \in EmittedAlerts :
           a.severityLevel = PolicySeverity(a.associatedAnomaly.measurementType)
    /\ \A a, b \in EmittedAlerts :
           a.associatedAnomaly.measurementType = b.associatedAnomaly.measurementType
               => a.severityLevel = b.severityLevel

C21_Witness ==
    /\ \E a \in EmittedAlerts :
           /\ a.associatedAnomaly.measurementType = "TEMPERATURE"
           /\ a.alertType = "THRESHOLD_HIGH"
           /\ a.severityLevel = "MEDIUM"
    /\ \E a \in EmittedAlerts :
           /\ a.associatedAnomaly.measurementType = "HEART_RATE"
           /\ a.alertType = "THRESHOLD_HIGH"
           /\ a.severityLevel = "HIGH"
    /\ \E a \in EmittedAlerts :
           /\ a.associatedAnomaly.measurementType = "SPO2"
           /\ a.severityLevel = "LOW"


\* ------------------------------------------------------------------------
\* C22: getSmoothedWindow returns a window as long as the stream's raw
\* window, whose i-th sample refers to the i-th raw measurement and whose
\* every value is the arithmetic mean of all raw values in the window; it
\* returns an empty window for a stream with an empty window and for a
\* stream the processor does not know; the call leaves the raw windows
\* (length, order and every value) and all other state unchanged.
\* ------------------------------------------------------------------------
RECURSIVE Total(_)
Total(w) == IF w = <<>> THEN 0 ELSE Head(w).value + Total(Tail(w))

RawWindowOf(patientId, measurementType) ==
    IF <<patientId, measurementType>> \in Streams
    THEN windows[<<patientId, measurementType>>]
    ELSE <<>>

C22_SmoothedIsMeanOfRaw ==
    [][query'.op = "getSmoothedWindow" =>
          LET raw == RawWindowOf(query'.patientId, query'.measurementType)
              smoothed == query'.value
          IN /\ UNCHANGED <<core, clock, published, returned>>
             /\ Len(smoothed) = Len(raw)
             /\ raw = <<>> => smoothed = <<>>
             /\ \A i \in 1..Len(smoothed) :
                    /\ smoothed[i].m = raw[i]
                    /\ smoothed[i].value.den > 0
                    /\ smoothed[i].value.num * Len(raw)
                           = Total(raw) * smoothed[i].value.den]_vars

C22_Witness ==
    /\ query.op = "getSmoothedWindow"
    /\ Len(query.value) = windowSize
    /\ query.value[1].m.value # query.value[2].m.value
    /\ query.value[1].value = query.value[2].value
    /\ query.value[1].value.num % query.value[1].value.den # 0
    /\ Len(histMeasurements) > windowSize


\* ------------------------------------------------------------------------
\* C23: in ingestMeasurement the threshold rule is applied to the mean of
\* the stream's raw window as it is after the new measurement was appended,
\* not to the new measurement's own value: the call finds a threshold
\* anomaly (THRESHOLD_HIGH for HEART_RATE and TEMPERATURE, THRESHOLD_LOW
\* for SPO2) exactly when that mean is above the HEART_RATE max, at or
\* above the TEMPERATURE max or below the SPO2 min, and the anomaly's
\* observedValue is that mean.
\* ------------------------------------------------------------------------
MeanCrossesThreshold(w, measurementType) ==
    CASE measurementType = "HEART_RATE" -> Total(w) > HeartRateMax * Len(w)
      [] measurementType = "TEMPERATURE" -> Total(w) >= TemperatureMax * Len(w)
      [] measurementType = "SPO2" -> Total(w) < Spo2Min * Len(w)
      [] OTHER -> FALSE

LastValueCrosses(v, measurementType) ==
    CASE measurementType = "HEART_RATE" -> v.num > HeartRateMax * v.den
      [] measurementType = "TEMPERATURE" -> v.num >= TemperatureMax * v.den
      [] measurementType = "SPO2" -> v.num < Spo2Min * v.den
      [] OTHER -> FALSE

C24_ThresholdOnLastSample ==
    query.op = "analyzeThreshold" =>
        LET w == query.window
            type == query.measurementType
            found == query.value
        IN /\ w = <<>> => found = NullAnomaly
           /\ type \notin {"SPO2", "HEART_RATE", "TEMPERATURE"} => found = NullAnomaly
           /\ type \notin DOMAIN thresholds => found = NullAnomaly
           /\ w # <<>> =>
                  /\ found = detectThresholdAnomaly(<<w[Len(w)]>>, type, query.now)
                  /\ found # NullAnomaly <=> LastValueCrosses(w[Len(w)].value, type)
                  /\ found # NullAnomaly => found.observedValue = w[Len(w)].value

\* no anomaly for a window whose older samples cross the threshold and
\* whose last sample does not
C24_Witness ==
    /\ query.op = "analyzeThreshold"
    /\ query.measurementType = "HEART_RATE"
    /\ Len(query.window) = MaxWindowLen
    /\ \A i \in 1..(MaxWindowLen - 1) : query.window[i].value.num > HeartRateMax
    /\ query.window[MaxWindowLen].value.num = HeartRateMax
    /\ query.value = NullAnomaly


\* ------------------------------------------------------------------------
\* C25: threshold takes priority over trend.  Whenever both the threshold
\* rule and the trend rule fire on the window the call analyses (the
\* smoothed window of the stream after the append), the finding of
\* ingestMeasurement is the threshold rule's, of type THRESHOLD_LOW or
\* THRESHOLD_HIGH, never TREND; the finding is of type TREND only when the
\* threshold rule returns null, and is null only when both rules return
\* null.
\* ------------------------------------------------------------------------
AnalysedWindow == getSmoothedWindow(windows, req.patientId, req.measurementType)

ThresholdFires ==
    detectThresholdAnomaly(AnalysedWindow, req.measurementType, clock) # NullAnomaly

TrendFires ==
    detectTrendAnomaly(AnalysedWindow, req.measurementType, clock) # NullAnomaly

C25_ThresholdBeforeTrend ==
    AcceptedNow =>
        /\ ThresholdFires =>
               /\ result.finding.anomalyType \in {"THRESHOLD_LOW", "THRESHOLD_HIGH"}
               /\ result.finding =
                      detectThresholdAnomaly(AnalysedWindow, req.measurementType,
                                             result.finding.detectionTimestamp)
        /\ result.finding.anomalyType = "TREND" => (TrendFires /\ ~ThresholdFires)
        /\ result.finding = NullAnomaly => (~TrendFires /\ ~ThresholdFires)

C25_Witness ==
    /\ AcceptedNow
    /\ ThresholdFires
    /\ TrendFires
    /\ result.finding.anomalyType = "THRESHOLD_HIGH"
    /\ \E i \in 1..Len(histAlerts) : histAlerts[i].alertType = "TREND"


\* ------------------------------------------------------------------------
\* C26: detectTrendAnomaly returns null for a window of fewer than
\* minPoints samples and for a type without slope limit; otherwise it
\* returns an anomaly of type TREND, with no expected range and the last
\* sample's value as observedValue, exactly when the least-squares slope of
\* the values is at or below the limit for SPO2, at or above the limit for
\* any other type.
\* ------------------------------------------------------------------------
RECURSIVE WeightedSum(_, _)
\* sum over the samples from index i on of (2i - n - 1) * value
WeightedSum(w, i) ==
    IF i > Len(w) THEN 0
    ELSE (2 * i - Len(w) - 1) * w[i].value.num + WeightedSum(w, i + 1)

\* the least-squares slope of n >= 2 values against 0..n-1 in closed form:
\* 6 * WeightedSum / (n (n^2 - 1))
LeastSquaresSlope(w) ==
    LET n == Len(w) IN
    IF n < 2 THEN [num |-> 0, den |-> 1]
    ELSE [num |-> 6 * WeightedSum(w, 1), den |-> n * (n * n - 1)]

TrendExpected(w, measurementType) ==
    /\ Len(w) >= minPoints
    /\ measurementType \in DOMAIN slopeThresholds
    /\ LET s == LeastSquaresSlope(w)
           limit == slopeThresholds[measurementType]
       IN IF measurementType = "SPO2"
          THEN s.num <= limit * s.den
          ELSE s.num >= limit * s.den

C26_TrendRule ==
    query.op = "detectTrend" =>
        LET w == query.window
            found == query.value
        IN /\ \A i \in 1..Len(w) : w[i].value.den = 1
           /\ found # NullAnomaly <=> TrendExpected(w, query.measurementType)
           /\ found # NullAnomaly =>
                  /\ found.anomalyType = "TREND"
                  /\ found.measurementType = query.measurementType
                  /\ found.expectedRange = NullRange
                  /\ found.observedValue = w[Len(w)].value
                  /\ found.slope.num * LeastSquaresSlope(w).den
                         = LeastSquaresSlope(w).num * found.slope.den

\* three SPO2 samples whose slope equals the limit
C26_Witness ==
    /\ query.op = "detectTrend"
    /\ query.value # NullAnomaly
    /\ Len(query.window) = 3
    /\ query.value.slope.num = slopeThresholds[query.measurementType] * query.value.slope.den
    /\ query.measurementType = "SPO2"


\* ------------------------------------------------------------------------
\* C27: slope(values) is the least-squares slope of the values against
\* their index 0..n-1: no other slope leaves a smaller sum of squared
\* residuals about the means.  It is 0 for fewer than 2 values and for a
\* constant sequence, d for an arithmetic progression of common difference
\* d, positive for a strictly increasing and negative for a strictly
\* decreasing sequence.  mean of an empty array is 0, of any other array
\* the sum divided by the length.
\* ------------------------------------------------------------------------
RECURSIVE SumSeq(_)
SumSeq(s) == IF s = <<>> THEN 0 ELSE Head(s) + SumSeq(Tail(s))

Nums(values) == [i \in 1..Len(values) |-> values[i].num]

\* (2 n q)^2 times the sum of squared residuals dy - (p/q) dx of the values
\* about their mean, dx and dy the deviations from the index and value means
SquaredResiduals(values, p, q) ==
    LET n == Len(values)
        total == SumSeq(Nums(values))
        r == [i \in 1..n |->
                 2 * q * (n * values[i].num - total)
                     - p * n * (2 * (i - 1) - (n - 1))]
    IN SumSeq([i \in 1..n |-> r[i] * r[i]])

CandidateSlopes == {<<p, q>> : p \in -8..8, q \in 1..5}

IsArithmetic(values, d) ==
    /\ Len(values) >= 2
    /\ \A i \in 1..(Len(values) - 1) : values[i + 1].num - values[i].num = d

C27_SlopeIsLeastSquares ==
    /\ query.op = "slope" =>
           LET values == query.window
               n == Len(values)
               b == query.value
           IN /\ b.den > 0
              /\ \A i \in 1..n : values[i].den = 1
              /\ n < 2 => b.num = 0
              /\ (\A i, j \in 1..n : values[i] = values[j]) => b.num = 0
              /\ \A d \in -3..3 : IsArithmetic(values, d) => b.num = d * b.den
              /\ (n >= 2 /\ \A i \in 1..(n - 1) : values[i].num < values[i + 1].num)
                     => b.num > 0
              /\ (n >= 2 /\ \A i \in 1..(n - 1) : values[i].num > values[i + 1].num)
                     => b.num < 0
              /\ n >= 2 =>
                     \A c \in CandidateSlopes :
                         SquaredResiduals(values, b.num, b.den) * c[2] * c[2]
                             <= SquaredResiduals(values, c[1], c[2]) * b.den * b.den
    /\ query.op = "mean" =>
           LET arr == query.window
               avg == query.value
           IN /\ avg.den > 0
              /\ arr = <<>> => avg.num = 0
              /\ avg.num * Len(arr) = SumSeq(Nums(arr)) * avg.den

\* a rising sequence that is no arithmetic progression
C27_Witness ==
    /\ query.op = "slope"
    /\ Len(query.window) = 3
    /\ query.window[1].num < query.window[2].num
    /\ query.window[2].num < query.window[3].num
    /\ query.window[2].num - query.window[1].num
           # query.window[3].num - query.window[2].num
    /\ query.value.num > 0
    /\ query.value.num % query.value.den # 0


\* ------------------------------------------------------------------------
\* C28: applyDebounceRules denies exactly when the key of the anomaly has a
\* recorded emission that happened less than debounceMs before now,
\* whatever the instant recorded; debounceMs later or more it allows.  A
\* denial leaves the debounce map unchanged; an allowance sets the entry of
\* the key to now and leaves the other entries.
\* ------------------------------------------------------------------------
C28_DebounceGate ==
    [][(result'.status \in {"ok", "alert"} /\ result'.finding # NullAnomaly) =>
          LET found == result'.finding
              key == <<req'.patientId, found.measurementType, found.anomalyType>>
              now == clock'
              last == lastAlertByKey[key]
          IN IF last # Undefined /\ now - last < debounceMs
             THEN /\ result'.status = "ok"
                  /\ result'.note = "debounced"
                  /\ lastAlertByKey' = lastAlertByKey
             ELSE /\ result'.status = "alert"
                  /\ lastAlertByKey' = [lastAlertByKey EXCEPT ![key] = now]]_vars


\* ------------------------------------------------------------------------
\* C29: debounce is keyed by (patientId, measurementType, anomalyType).  An
\* anomaly is suppressed only when the entry of its own key holds an
\* emission less than debounceMs old: alerts emitted for the same patient
\* and type with another anomaly type, or for the same patient with another
\* measurement type, never suppress it.  A call creates or overwrites the
\* entry of the decided key only, and only when it emits.
\* ------------------------------------------------------------------------
C29_DebounceKeyedByTriple ==
    [][(result'.status \in {"ok", "alert"} /\ result'.finding # NullAnomaly) =>
          LET found == result'.finding
              key == <<req'.patientId, found.measurementType, found.anomalyType>>
              last == lastAlertByKey[key]
          IN /\ last = Undefined => result'.status = "alert"
             /\ result'.note = "debounced" =>
                    (last # Undefined /\ clock' - last < debounceMs)
             /\ \A k \in DebounceKeys \ {key} :
                    lastAlertByKey'[k] = lastAlertByKey[k]
             /\ lastAlertByKey'[key] # last =>
                    (result'.status = "alert" /\ lastAlertByKey'[key] = clock')]_vars

\* a THRESHOLD_HIGH alert of a stream at the instant, after 0, at which a
\* TREND alert of the same stream was emitted
C29_Witness ==
    /\ result.status = "alert"
    /\ req.measurementType = "TEMPERATURE"
    /\ result.finding.anomalyType = "THRESHOLD_HIGH"
    /\ clock > 0
    /\ lastAlertByKey[<<"P001", "TEMPERATURE", "TREND">>] = clock
    /\ lastAlertByKey[<<"P001", "TEMPERATURE", "THRESHOLD_HIGH">>] = clock


\* ------------------------------------------------------------------------
\* C30: every accepted measurement, whatever the outcome (ok, debounced or
\* alert), is appended once to the raw window of its stream, which is then
\* trimmed to windowSize, and once to the history; it is stored in the
\* offline cache once when the processor is OFFLINE during the call and not
\* at all when it is ONLINE.  The cache store comes first: the measurement
\* is queued before the alert the same call may emit.
\* ------------------------------------------------------------------------
CachedMeasurements(evs) == Payloads(OfType(evs, "measurement"))

C30_AcceptedStoredOnce ==
    [][result'.status \in {"ok", "alert"} =>
          LET k == StreamOf(req') IN
          /\ windows' = [windows EXCEPT
                            ![k] = LastN(Append(windows[k], req'), windowSize)]
          /\ histMeasurements' = Append(histMeasurements, req')
          /\ isOnline => CachedMeasurements(events') = CachedMeasurements(events)
          /\ ~isOnline =>
                 /\ CachedMeasurements(events')
                        = Append(CachedMeasurements(events), req')
                 /\ events'[Len(events) + 1].type = "measurement"
                 /\ events'[Len(events) + 1].payload = req'
                 /\ \A i \in (Len(events) + 2)..Len(events') :
                        /\ events'[i].type = "alert"
                        /\ events'[i].payload = result'.alert]_vars

\* a debounced call made OFFLINE, after a call that cached its measurement
\* and its alert
C30_Witness ==
    /\ result.status = "ok"
    /\ result.note = "debounced"
    /\ ~isOnline
    /\ Len(events) >= 3
    /\ events[Len(events)].type = "measurement"
    /\ events[Len(events)].payload = req
    /\ events[Len(events) - 1].type = "alert"
    /\ events[Len(events) - 2].type = "measurement"
    /\ Len(Accepted(StreamOf(req))) > windowSize


\* ------------------------------------------------------------------------
\* C31: an alert is created, delivered and saved to the history only by a
\* call that found an anomaly the debounce gate allowed.  A call that
\* returns "ok" (debounced or not) or "discarded" returns no alert and
\* leaves the published alerts, the cached alerts and the alert history as
\* they were; a call that returns "alert" saves exactly its one alert,
\* delivers it once, and the alert's alertType is the finding's anomalyType
\* and its patientId the measurement's.
\* ------------------------------------------------------------------------
C31_AlertOnlyWhenAllowed ==
    [][IngestStep =>
          /\ result'.status # "alert" =>
                 /\ result'.alert = NullAlert
                 /\ histAlerts' = histAlerts
                 /\ published' = published
                 /\ CachedAlerts(events') = CachedAlerts(events)
          /\ result'.status = "alert" =>
                 /\ result'.finding # NullAnomaly
                 /\ result'.anomaly = result'.finding
                 /\ histAlerts' = Append(histAlerts, result'.alert)
                 /\ Len(published') + Len(CachedAlerts(events'))
                        = Len(published) + Len(CachedAlerts(events)) + 1
                 /\ result'.alert.alertType = result'.finding.anomalyType
                 /\ result'.alert.associatedAnomaly = result'.finding
                 /\ result'.alert.patientId = req'.patientId]_vars

\* a debounced call, after an alert that was published and one that was
\* cached
C31_Witness ==
    /\ result.status = "ok"
    /\ result.note = "debounced"
    /\ result.finding # NullAnomaly
    /\ Len(histAlerts) = 2
    /\ Len(published) = 1
    /\ Len(CachedAlerts(events)) = 1
    /\ Len(histMeasurements) = 3


\* ------------------------------------------------------------------------
\* C32: per stream, the validator's last accepted timestamp never
\* decreases, is changed only by a call that accepts a measurement of that
\* stream, and equals the timestamp of the last element of the stream's raw
\* window whenever that window is not empty; every raw window is sorted
\* non-decreasing by timestamp.
\* ------------------------------------------------------------------------
LastTimestampIsWindowEnd ==
    \A k \in Streams :
        LET w == windows[k] IN
        /\ w = <<>> => lastTimestampByStream[k] = Undefined
        /\ w # <<>> => lastTimestampByStream[k] = toMs(w[Len(w)].timestamp)
        /\ \A i, j \in 1..Len(w) :
               i < j => toMs(w[i].timestamp) <= toMs(w[j].timestamp)

C32_LastTimestampMonotonic ==
    [][/\ LastTimestampIsWindowEnd'
       /\ \A k \in Streams :
              lastTimestampByStream'[k] # lastTimestampByStream[k] =>
                  /\ result'.status \in {"ok", "alert"}
                  /\ StreamOf(req') = k
                  /\ lastTimestampByStream'[k] = toMs(req'.timestamp)
                  /\ lastTimestampByStream[k] # Undefined =>
                         lastTimestampByStream'[k] > lastTimestampByStream[k]]_vars

\* a measurement discarded as out of order while the window of its stream
\* holds an earlier and a later one
C32_Witness ==
    /\ result.status = "discarded"
    /\ result.reason = "out-of-order timestamp"
    /\ Len(windows[StreamOf(req)]) = 2
    /\ windows[StreamOf(req)][1].timestamp < windows[StreamOf(req)][2].timestamp
    /\ lastTimestampByStream[StreamOf(req)] = windows[StreamOf(req)][2].timestamp
    /\ req.timestamp < lastTimestampByStream[StreamOf(req)]


\* ------------------------------------------------------------------------
\* C33: connectivity does not influence detection.  What an
\* ingestMeasurement call returns (status, reason, note, anomaly) and the
\* windows, the last-timestamp map and the debounce map it leaves are
\* determined by those three maps before the call, the measurement and the
\* clock reading alone, whatever the connectivity and the cache; setOnline
\* and flushCachedData change none of the three maps.  So two processors
\* that are given the same measurements at the same clock readings and
\* differ in their setOnline and flushCachedData calls return the same
\* results and end with the same three maps.
\* ------------------------------------------------------------------------
DetectionState(lastTs, wins, lastAlert, m, now) ==
    LET out == Outcome(lastTs, wins, lastAlert, m, now) IN
    [lastTs |-> buildValidationResult(lastTs, m).lastTs,
     wins |-> IF out.status = "discarded" THEN wins
              ELSE updateMeasurementWindow(wins, m.patientId, m.measurementType, m),
     lastAlert |-> IF out.finding = NullAnomaly THEN lastAlert
                   ELSE applyDebounceRules(lastAlert, m.patientId,
                                           out.finding, now).lastAlert]

C33_ConnectivityBlindDetection ==
    [][/\ IngestStep =>
              LET out == Outcome(lastTimestampByStream, windows, lastAlertByKey,
                                 req', clock')
                  after == DetectionState(lastTimestampByStream, windows,
                                          lastAlertByKey, req', clock')
              IN /\ result'.status = out.status
                 /\ result'.reason = out.reason
                 /\ result'.note = out.note
                 /\ result'.finding = out.finding
                 /\ result'.anomaly =
                        (IF out.status = "alert" THEN out.finding ELSE NullAnomaly)
                 /\ lastTimestampByStream' = after.lastTs
                 /\ windows' = after.wins
                 /\ lastAlertByKey' = after.lastAlert
       /\ ~IngestStep =>
              UNCHANGED <<windows, lastTimestampByStream, lastAlertByKey>>]_vars

\* an anomaly debounced by a call made OFFLINE, after a flush
C33_Witness ==
    /\ result.status = "ok"
    /\ result.note = "debounced"
    /\ ~isOnline
    /\ Len(events) = 1
    /\ \E i \in 1..Len(returned) : returned[i] = 1
    /\ Len(published) = 0


\* ------------------------------------------------------------------------
\* C34: the offline cache gains events only in ingestMeasurement calls made
\* while OFFLINE.  A call made while ONLINE, a setOnline call and a refused
\* flush leave the cache as it is, so the cache is empty in every state
\* reached without an OFFLINE call since construction or since the last
\* successful flush; the events of several OFFLINE periods stay queued
\* across the ONLINE periods between them and one successful flush returns
\* them all.
\* ------------------------------------------------------------------------
C34_CacheGainsOnlyOffline ==
    [][/\ events' # events =>
              \/ /\ ~isOnline
                 /\ result'.status \in {"ok", "alert"}
                 /\ KeepsCachedEvents
                 /\ Len(events') > Len(events)
              \/ /\ isOnline
                 /\ result'.status = "flushed"
                 /\ events' = <<>>
       /\ (isOnline /\ result'.status # "flushed") => events' = events
       /\ result'.status = "flushed" =>
              /\ events' = <<>>
              /\ Len(result'.measurements) = Len(CachedMeasurements(events))
              /\ Len(result'.alerts) = Len(CachedAlerts(events))
              /\ \A i \in 1..Len(events) :
                     IF events[i].type = "measurement"
                     THEN \E j \in 1..Len(result'.measurements) :
                              result'.measurements[j] = events[i].payload
                     ELSE \E j \in 1..Len(result'.alerts) :
                              result'.alerts[j] = events[i].payload]_vars

\* one flush returns the alerts of two OFFLINE periods, between which an
\* alert was published ONLINE
C34_Witness ==
    /\ result.status = "flushed"
    /\ Len(histAlerts) = 3
    /\ histAlerts[1].timestamp < histAlerts[2].timestamp
    /\ histAlerts[2].timestamp < histAlerts[3].timestamp
    /\ published = <<histAlerts[2]>>
    /\ result.alerts = <<histAlerts[1], histAlerts[3]>>
    /\ Len(result.measurements) = 2


\* ------------------------------------------------------------------------
\* C35: in the chronologically ordered sequence a successful flush drains,
\* every cached alert comes after the cached measurement whose ingestion
\* produced it, whatever the accepted timestamp of that measurement, a
\* timestamp later than the instant the alert was created included.
\* ------------------------------------------------------------------------
\* the place in the drained sequence of the event stored with identity eid
PlaceOf(drained, eid) == CHOOSE k \in 1..Len(drained) : drained[k].eid = eid

\* the event at index i is an alert and the one stored just before it, by
\* the same call, is the measurement that produced it
ProducedAt(evs, i) ==
    /\ i > 1
    /\ evs[i].type = "alert"
    /\ evs[i - 1].type = "measurement"
    /\ evs[i - 1].payload.patientId = evs[i].payload.patientId

C35_AlertAfterItsMeasurement ==
    [][result'.status = "flushed" =>
          LET drained == cacheFlushCachedData(events)
          IN \A i \in 1..Len(events) :
                 events[i].type = "alert" =>
                     /\ ProducedAt(events, i)
                     /\ PlaceOf(drained, events[i - 1].eid)
                            < PlaceOf(drained, events[i].eid)]_vars

\* the order holds for every alert created no earlier than the timestamp of
\* its measurement
C35_AlertAfterEarlierMeasurement ==
    [][result'.status = "flushed" =>
          LET drained == cacheFlushCachedData(events)
          IN \A i \in 1..Len(events) :
                 events[i].type = "alert" =>
                     /\ ProducedAt(events, i)
                     /\ events[i - 1].timestamp <= events[i].timestamp =>
                            PlaceOf(drained, events[i - 1].eid)
                                < PlaceOf(drained, events[i].eid)]_vars


\* ------------------------------------------------------------------------
\* C36: the flush ordering is stable: cached events that carry the same
\* timestamp are returned by flushCachedData in the order in which they
\* were stored, so two measurements of different streams with the same
\* timestamp keep their ingestion order in the flushed measurements list.
\* ------------------------------------------------------------------------
\* what payloads holds with timestamp t, in its order
StampedAt(payloads, t) == SelectSeq(payloads, LAMBDA p : p.timestamp = t)

C36_StableFlush ==
    [][result'.status = "flushed" =>
          \A i \in 1..Len(events) :
              LET t == events[i].payload.timestamp
              IN /\ StampedAt(result'.measurements, t)
                     = StampedAt(CachedMeasurements(events), t)
                 /\ StampedAt(result'.alerts, t)
                     = StampedAt(CachedAlerts(events), t)]_vars

\* two measurements of different streams with the same timestamp, flushed
\* in their ingestion order, the SPO2 one first
C36_Witness ==
    /\ result.status = "flushed"
    /\ Len(result.measurements) = 2
    /\ result.measurements[1].timestamp = result.measurements[2].timestamp
    /\ result.measurements[1].measurementType = "SPO2"
    /\ result.measurements[2].measurementType = "HEART_RATE"
    /\ histMeasurements = result.measurements


\* ------------------------------------------------------------------------
\* C37: the trend rule of ingestMeasurement runs on the smoothed window,
\* whose samples all carry the same value, so the slope it computes is 0
\* for every window.  An accepted call finds a TREND anomaly iff the window
\* holds at least minPoints samples, the threshold rule did not fire, and
\* the slope limit of the type is <= 0 (a type other than SPO2) or >= 0
\* (SPO2), however the raw values of the window evolve.
\* ------------------------------------------------------------------------
SmoothedValues == [i \in 1..Len(AnalysedWindow) |-> AnalysedWindow[i].value]

ZeroSlopeAllowsTrend(measurementType) ==
    /\ measurementType \in DOMAIN slopeThresholds
    /\ IF measurementType = "SPO2"
       THEN slopeThresholds[measurementType] >= 0
       ELSE slopeThresholds[measurementType] <= 0

C38_NoOutOfOrderBehindServer ==
    /\ result.reason # "out-of-order timestamp"
    /\ \A k \in Streams : lastTimestampByStream[k] <= clock
    /\ \A i, j \in 1..Len(histMeasurements) :
           (i < j /\ StreamOf(histMeasurements[i]) = StreamOf(histMeasurements[j]))
               => histMeasurements[i].timestamp <= histMeasurements[j].timestamp

\* one call per step: a step that changes what the processor holds or
\* returns answers exactly one request, and a suspended request changes
\* nothing
C38_CallsDoNotInterleave ==
    [][/\ <<core, result, req>>' # <<core, result, req>> =>
              \E r \in RequestIds :
                  /\ requests[r].pc # "done"
                  /\ requests' = [requests EXCEPT ![r] = requests'[r]]
                  /\ requests'[r].pc = "done"
       /\ \A r \in RequestIds :
              requests'[r].pc = "readBody" /\ requests[r].pc = "none" =>
                  UNCHANGED <<core, result, req, clock>>]_vars

\* two /ingest requests of one stream in flight together, the second to
\* arrive ingested first at a later instant than both arrivals, both accepted
C38_Witness ==
    /\ requests[1].route = "/ingest" /\ requests[1].pc = "done"
    /\ requests[2].route = "/ingest" /\ requests[2].pc = "done"
    /\ requests[1].body.value = 119
    /\ requests[2].body.value = 121
    /\ Len(histMeasurements) = 2
    /\ histMeasurements[1].value = 121
    /\ histMeasurements[2].value = 119
    /\ requests[2].arrived < histMeasurements[1].timestamp
    /\ histMeasurements[1].timestamp < histMeasurements[2].timestamp
    /\ AcceptedNow

====
